---- MODULE Spec2Model ----
(***************************************************************************)
(* Model of the strategy-validation engine of ibkr-portfolio-bot:          *)
(* indicators, scoring, gates, correlation-capped selection, inverse-      *)
(* volatility weighting, the lagged backtest, walk-forward windows, grid   *)
(* search and the permutation test.                                        *)
(*                                                                         *)
(* Numbers.  The Python code computes in binary floating point.  Here a    *)
(* number is an exact rational <<n, d>> (d > 0, lowest terms); the only    *)
(* inexact operation is the square root of the rolling standard deviation, *)
(* which is rounded up to a multiple of 1/VolRes.  NaN is <<0, 0>>, the    *)
(* infinities are <<1, 0>> and <<-1, 0>>; as in Python every ordered       *)
(* comparison with NaN is false.                                           *)
(***************************************************************************)
EXTENDS Integers, Sequences, FiniteSets, TLC

VARIABLES
    \* calculate_weights(selected_symbols, returns, config)
    w_pc, w_selected, w_returns, w_cfg, w_out,
    \* generate_walkforward_windows(start_date, end_date, train_years, oos_months)
    wf_pc, wf_args, wf_current, wf_windows,
    \* select_with_correlation_cap(scores, returns, top_n, corr_window, corr_cap, date)
    s_pc, s_scores, s_returns, s_args, s_out,
    \* run_backtest(data, config) and a second call on data2, which differs
    \* from data only in bars dated after b_t
    b_pc, b_pc2, b_data, b_data2, b_t, b_cfg, b_out, b_out2,
    \* select_assets(data, returns, config, date): a_offered is the key set of
    \* long_ok_scores, a_out the returned list
    a_pc, a_data, a_cfg, a_date, a_offered, a_out,
    \* run_permutation_test(data, returns, config, train_start, train_end,
    \* runs, seed): its arguments, the loop counter and the locals of the loop
    p_pc, p_data, p_returns, p_cfg, p_args, p_run, p_real_score,
    p_permuted_returns, p_permuted_grid_result, p_permuted_scores, p_result,
    \* the state of the global generator of numpy.random
    np_random,
    \* two workers, each inside one call of permute_returns_joint
    k_pc, k_returns, k_seed, k_out,
    \* grid_search(data, returns, config, train_start, train_end)
    g_pc, g_data, g_returns, g_cfg, g_args, g_out,
    \* run_walkforward(data, returns, config, start_date, end_date)
    r_pc, r_data, r_returns, r_cfg, r_args, r_windows, r_i, r_chosen_params, r_oos_results, r_oos_equity_segments, r_out,
    \* the wrapper of retry_with_backoff / async_retry_with_backoff around func
    t_pc, t_wrapper, t_max_attempts, t_exceptions, t_attempt, t_delay, t_slept, t_calls, t_result,
    \* ParquetCache: the cached frame of one symbol, and the last append
    c_cache, c_prev, c_new_df, c_repeat, c_appends,
    \* IBKRExecutor and its ComplianceChecker; the clock; the orders placed per day
    e_now, e_max_orders_per_day, e_last_rebalance_date, e_orders_today, e_placed, e_completed, e_result

wVars == <<w_pc, w_selected, w_returns, w_cfg, w_out>>
wfVars == <<wf_pc, wf_args, wf_current, wf_windows>>
sVars == <<s_pc, s_scores, s_returns, s_args, s_out>>
bVars == <<b_pc, b_pc2, b_data, b_data2, b_t, b_cfg, b_out, b_out2>>
aVars == <<a_pc, a_data, a_cfg, a_date, a_offered, a_out>>
pVars == <<p_pc, p_data, p_returns, p_cfg, p_args, p_run, p_real_score,
           p_permuted_returns, p_permuted_grid_result, p_permuted_scores, p_result>>
kVars == <<k_pc, k_returns, k_seed, k_out>>
gVars == <<g_pc, g_data, g_returns, g_cfg, g_args, g_out>>
rVars == <<r_pc, r_data, r_returns, r_cfg, r_args, r_windows, r_i, r_chosen_params, r_oos_results, r_oos_equity_segments, r_out>>
tVars == <<t_pc, t_wrapper, t_max_attempts, t_exceptions, t_attempt, t_delay, t_slept, t_calls, t_result>>
cVars == <<c_cache, c_prev, c_new_df, c_repeat, c_appends>>
eVars == <<e_now, e_max_orders_per_day, e_last_rebalance_date, e_orders_today, e_placed, e_completed, e_result>>
vars == <<wVars, wfVars, sVars, bVars, aVars, pVars, np_random, kVars, gVars, rVars, tVars, cVars, eVars>>

-----------------------------------------------------------------------------
(* Exact rational arithmetic.                                              *)

Abs(x) == IF x < 0 THEN -x ELSE x

RECURSIVE GCD(_, _)
GCD(a, b) == IF b = 0 THEN a ELSE GCD(b, a % b)

Norm(n, d) ==
    IF d = 0 THEN <<(IF n > 0 THEN 1 ELSE IF n < 0 THEN -1 ELSE 0), 0>>
    ELSE LET s == IF d < 0 THEN -1 ELSE 1
             g == GCD(Abs(n), Abs(d))
         IN  <<(s * n) \div g, (s * d) \div g>>

R(n, d) == Norm(n, d)
Zero == <<0, 1>>
One == <<1, 1>>
NaN == <<0, 0>>
Inf == <<1, 0>>
NegInf == <<-1, 0>>
IsNaN(x) == x[1] = 0 /\ x[2] = 0

RAdd(a, b) == Norm(a[1] * b[2] + b[1] * a[2], a[2] * b[2])
RSub(a, b) == Norm(a[1] * b[2] - b[1] * a[2], a[2] * b[2])
RMul(a, b) == Norm(a[1] * b[1], a[2] * b[2])
RDiv(a, b) == Norm(a[1] * b[2], a[2] * b[1])
RLt(a, b) ==
    /\ ~IsNaN(a)
    /\ ~IsNaN(b)
    /\ IF a[2] = 0 /\ b[2] = 0 THEN a[1] < b[1] ELSE a[1] * b[2] < b[1] * a[2]
RLe(a, b) ==
    /\ ~IsNaN(a)
    /\ ~IsNaN(b)
    /\ IF a[2] = 0 /\ b[2] = 0 THEN a[1] <= b[1] ELSE a[1] * b[2] <= b[1] * a[2]
RGt(a, b) == RLt(b, a)
RGe(a, b) == RLe(b, a)
RAbs(a) == <<Abs(a[1]), a[2]>>
RMax(a, b) == IF RLt(a, b) THEN b ELSE a

RECURSIVE RSumSeq(_)
RSumSeq(s) == IF s = <<>> THEN Zero ELSE RAdd(Head(s), RSumSeq(Tail(s)))

\* sum of f[k] over the keys of a dict (a function with a finite domain)
RECURSIVE RSumOver(_, _)
RSumOver(f, keys) ==
    IF keys = {} THEN Zero
    ELSE LET k == CHOOSE x \in keys : TRUE
         IN  RAdd(f[k], RSumOver(f, keys \ {k}))

RSum(f) == RSumOver(f, DOMAIN f)

\* the last n elements of a sequence (pandas tail(n))
TailN(s, n) == IF n >= Len(s) THEN s ELSE SubSeq(s, Len(s) - n + 1, Len(s))

\* resolution of the square root: results are multiples of 1/VolRes
VolRes == 100

CeilDiv(a, b) == (a + b - 1) \div b

RECURSIVE SqrtSearch(_, _, _)
SqrtSearch(x, lo, hi) ==
    IF lo >= hi THEN lo
    ELSE LET mid == (lo + hi) \div 2
         IN  IF mid * mid >= x THEN SqrtSearch(x, lo, mid)
             ELSE SqrtSearch(x, mid + 1, hi)

\* least k with k*k >= x
CeilSqrt(x) == SqrtSearch(x, 0, 46340)

\* square root of a rational r >= 0, rounded up to a multiple of 1/VolRes
RSqrt(r) == R(CeilSqrt(CeilDiv(r[1] * VolRes * VolRes, r[2])), VolRes)

-----------------------------------------------------------------------------
(* src/features/indicators.py                                              *)

\* sample variance (ddof = 1) of a sequence of at least two rationals
SampleVar(xs) ==
    LET n == Len(xs)
        mean == RDiv(RSumSeq(xs), R(n, 1))
        sq == [i \in 1..n |-> RMul(RSub(xs[i], mean), RSub(xs[i], mean))]
    IN  RDiv(RSumSeq(sq), R(n - 1, 1))

\* stdev(series, window).iloc[-1]: rolling(window, min_periods=1).std(ddof=1)
\* at the last row; one observation has no sample deviation (NaN)
StdevLast(series, window) ==
    LET xs == TailN(series, window)
    IN  IF Len(xs) < 2 THEN NaN ELSE RSqrt(SampleVar(xs))

\* ema(series, window)[i]: alpha = 2 / (window + 1), seeded with series[0]
RECURSIVE EmaAt(_, _, _)
EmaAt(series, window, i) ==
    LET alpha == R(2, window + 1)
    IN  IF i = 1 THEN series[1]
        ELSE RAdd(RMul(alpha, series[i]),
                  RMul(RSub(One, alpha), EmaAt(series, window, i - 1)))

ema(series, window) == [i \in DOMAIN series |-> EmaAt(series, window, i)]

\* ema, atr and stdev raise ValueError for a window <= 0
WindowRaises(window) == window <= 0

\* the true range of bar i; the previous close of the first bar is its own
TrueRange(high, low, close, i) ==
    LET prev_close == IF i = 1 THEN close[1] ELSE close[i - 1]
    IN  RMax(RSub(high[i], low[i]),
             RMax(RAbs(RSub(high[i], prev_close)), RAbs(RSub(low[i], prev_close))))

\* atr(high, low, close, window)[i]: Wilder smoothing, seeded with tr[0]
RECURSIVE AtrAt(_, _, _, _, _)
AtrAt(high, low, close, window, i) ==
    IF i = 1 THEN TrueRange(high, low, close, 1)
    ELSE RDiv(RAdd(RMul(AtrAt(high, low, close, window, i - 1), R(window - 1, 1)),
                   TrueRange(high, low, close, i)),
              R(window, 1))

atr(high, low, close, window) ==
    [i \in DOMAIN close |-> AtrAt(high, low, close, window, i)]

\* macd raises ValueError for a period <= 0 or fast >= slow
MacdRaises(fast, slow, signal) == fast <= 0 \/ slow <= 0 \/ signal <= 0 \/ fast >= slow

\* the MACD line of macd(close, fast, slow, signal)
MacdLine(close, fast, slow) ==
    [i \in DOMAIN close |-> RSub(EmaAt(close, fast, i), EmaAt(close, slow, i))]

-----------------------------------------------------------------------------
(* Frames.  A returns frame is [index, cols]: the dates of its rows and    *)
(* one column (a sequence aligned with index) per symbol.  A dict whose    *)
(* iteration order matters is a sequence of records.                       *)

\* date=None
NoDate == -1

Min(a, b) == IF a < b THEN a ELSE b

\* seq[:k] for k >= 0
SeqRange(seq) == {seq[i] : i \in DOMAIN seq}

Take(seq, k) == SubSeq(seq, 1, Min(Len(seq), k))

RECURSIVE PickFrom(_, _, _)
PickFrom(seq, keep, i) ==
    IF i > Len(seq) THEN <<>>
    ELSE (IF i \in keep THEN <<seq[i]>> ELSE <<>>) \o PickFrom(seq, keep, i + 1)

\* frame[mask]: the rows at the positions in keep, in order
FrameRows(frame, keep) ==
    [index |-> PickFrom(frame.index, keep, 1),
     cols |-> [c \in DOMAIN frame.cols |-> PickFrom(frame.cols[c], keep, 1)]]

\* variant that keeps every row
RowsOfAnyDate(frame, date) == frame

\* frame[frame.index <= date]
RowsUpTo(frame, date) ==
    FrameRows(frame, {i \in DOMAIN frame.index : frame.index[i] <= date})

\* frame[(frame.index >= lo) & (frame.index < hi)]
RowsBetween(frame, lo, hi) ==
    FrameRows(frame, {i \in DOMAIN frame.index : frame.index[i] >= lo /\ frame.index[i] < hi})

FrameTail(frame, n) ==
    [index |-> TailN(frame.index, n),
     cols |-> [c \in DOMAIN frame.cols |-> TailN(frame.cols[c], n)]]

\* DataFrame.empty
FrameEmpty(frame) == frame.index = <<>> \/ DOMAIN frame.cols = {}

EmptyFrame == [index |-> <<>>, cols |-> <<>>]

-----------------------------------------------------------------------------
(* src/features/correlation.py                                             *)

\* sum over the rows of (x - mean(x)) * (y - mean(y))
CoDev(xs, ys) ==
    LET n == Len(xs)
        mx == RDiv(RSumSeq(xs), R(n, 1))
        my == RDiv(RSumSeq(ys), R(n, 1))
    IN  RSumSeq([i \in 1..n |-> RMul(RSub(xs[i], mx), RSub(ys[i], my))])

\* the frame of the window the matrix is computed on; empty when fewer than
\* window rows are dated <= date
get_correlation_matrix(returns, window, date) ==
    LET upto == IF date # NoDate THEN RowsUpTo(returns, date) ELSE returns
        window_returns == FrameTail(upto, window)
    IN  IF FrameEmpty(returns) THEN EmptyFrame
        ELSE IF date # NoDate /\ Len(upto.index) < window THEN EmptyFrame
        ELSE IF Len(window_returns.index) < window THEN EmptyFrame
        ELSE window_returns

\* corr_matrix.loc[a, b] is a number: both columns vary in the window.
\* DataFrame.corr() gives NaN for a column of zero variance.
CorrDefined(corr_matrix, a, b) ==
    /\ CoDev(corr_matrix.cols[a], corr_matrix.cols[a]) # Zero
    /\ CoDev(corr_matrix.cols[b], corr_matrix.cols[b]) # Zero

\* variant of the cap test that compares the signed correlation
CorrExceedsSigned(corr_matrix, a, b, corr_cap) ==
    LET sab == CoDev(corr_matrix.cols[a], corr_matrix.cols[b])
        saa == CoDev(corr_matrix.cols[a], corr_matrix.cols[a])
        sbb == CoDev(corr_matrix.cols[b], corr_matrix.cols[b])
    IN  /\ CorrDefined(corr_matrix, a, b)
        /\ \/ RLt(corr_cap, Zero)
           \/ /\ RGt(sab, Zero)
              /\ RGt(RMul(sab, sab), RMul(RMul(corr_cap, corr_cap), RMul(saa, sbb)))

\* abs(corr_matrix.loc[a, b]) > corr_cap, with
\* corr = CoDev(a, b) / sqrt(CoDev(a, a) * CoDev(b, b)); false for NaN
CorrAbsExceeds(corr_matrix, a, b, corr_cap) ==
    LET sab == CoDev(corr_matrix.cols[a], corr_matrix.cols[b])
        saa == CoDev(corr_matrix.cols[a], corr_matrix.cols[a])
        sbb == CoDev(corr_matrix.cols[b], corr_matrix.cols[b])
    IN  /\ CorrDefined(corr_matrix, a, b)
        /\ \/ RLt(corr_cap, Zero)
           \/ RGt(RMul(sab, sab), RMul(RMul(corr_cap, corr_cap), RMul(saa, sbb)))

\* the test of the inner loop: the correlation of symbol with an already
\* selected symbol exceeds the cap; a symbol outside the matrix counts as 0.0
ExceedsCap(corr_matrix, symbol, selected_symbol, corr_cap) ==
    IF symbol \in DOMAIN corr_matrix.cols /\ selected_symbol \in DOMAIN corr_matrix.cols
    THEN CorrAbsExceeds(corr_matrix, symbol, selected_symbol, corr_cap)
    ELSE RGt(Zero, corr_cap)

RECURSIVE GreedyAdmit(_, _, _, _)
GreedyAdmit(symbols, selected, corr_matrix, corr_cap) ==
    IF symbols = <<>> THEN selected
    ELSE LET symbol == Head(symbols)
             can_add == \A i \in DOMAIN selected :
                           ~ExceedsCap(corr_matrix, symbol, selected[i], corr_cap)
         IN  GreedyAdmit(Tail(symbols),
                         IF can_add THEN Append(selected, symbol) ELSE selected,
                         corr_matrix, corr_cap)

apply_correlation_cap(symbols, scores, corr_matrix, corr_cap) ==
    IF symbols = <<>> THEN <<>>
    ELSE IF FrameEmpty(corr_matrix) THEN <<symbols[1]>>
    ELSE GreedyAdmit(symbols, <<>>, corr_matrix, corr_cap)

\* sorted(scores.items(), key=score, reverse=True): a stable sort, entries
\* of equal score keep the order in which the dict holds them
RECURSIVE InsertByScore(_, _)
InsertByScore(sorted, e) ==
    IF sorted = <<>> THEN <<e>>
    ELSE IF RGe(Head(sorted).score, e.score)
         THEN <<Head(sorted)>> \o InsertByScore(Tail(sorted), e)
         ELSE <<e>> \o sorted

RECURSIVE SortByScoreDesc(_)
SortByScoreDesc(items) ==
    IF items = <<>> THEN <<>>
    ELSE InsertByScore(SortByScoreDesc(SubSeq(items, 1, Len(items) - 1)),
                       items[Len(items)])

\* variant that hands every scored symbol to the greedy admission
select_from_all_candidates(scores, returns, top_n, corr_window, corr_cap, date) ==
    LET sorted_symbols == SortByScoreDesc(scores)
        symbol_list == [i \in DOMAIN sorted_symbols |-> sorted_symbols[i].symbol]
        corr_matrix == get_correlation_matrix(returns, corr_window, date)
    IN  IF scores = <<>> THEN <<>>
        ELSE IF FrameEmpty(corr_matrix) THEN Take(symbol_list, top_n)
        ELSE Take(apply_correlation_cap(symbol_list, scores, corr_matrix, corr_cap), top_n)

select_with_correlation_cap(scores, returns, top_n, corr_window, corr_cap, date) ==
    LET sorted_symbols == SortByScoreDesc(scores)
        symbol_list == [i \in DOMAIN sorted_symbols |-> sorted_symbols[i].symbol]
        candidates == Take(symbol_list, top_n * 3)
        corr_matrix == get_correlation_matrix(returns, corr_window, date)
    IN  IF scores = <<>> THEN <<>>
        ELSE IF FrameEmpty(corr_matrix) THEN Take(symbol_list, top_n)
        ELSE Take(apply_correlation_cap(candidates, scores, corr_matrix, corr_cap), top_n)

-----------------------------------------------------------------------------
(* src/features/scoring.py, src/strategy/signals.py, selector.py           *)

\* eps = 1e-6
Eps == R(1, 1000000)

\* calculate_score: ((close / ema_fast) - 1) / max(atr / close, eps), per row
calculate_score(close, ema_fast, atr_values) ==
    [i \in DOMAIN close |->
        RDiv(RSub(RDiv(close[i], ema_fast[i]), One),
             RMax(RDiv(atr_values[i], close[i]), Eps))]

calculate_scores_for_dataframe(df, ema_fast_window, atr_window) ==
    IF FrameEmpty(df) THEN <<>>
    ELSE calculate_score(df.cols.close,
                         ema(df.cols.close, ema_fast_window),
                         atr(df.cols.high, df.cols.low, df.cols.close, atr_window))

check_long_ok(close, ema_fast, ema_slow, macd_line, macd_enabled) ==
    IF Len(close) = 0 \/ Len(ema_fast) = 0 \/ Len(ema_slow) = 0 THEN FALSE
    ELSE IF ~RGt(ema_fast[Len(ema_fast)], ema_slow[Len(ema_slow)]) THEN FALSE
    ELSE IF macd_enabled
         THEN Len(macd_line) > 0 /\ RGt(macd_line[Len(macd_line)], Zero)
         ELSE TRUE

\* calculate_signals(df, config) for the frame of one symbol (no MultiIndex):
\* the dict holds one entry, under the key "UNKNOWN"; an exception of an
\* indicator is caught and gives False
calculate_signals(df, config) ==
    IF FrameEmpty(df) THEN <<>>
    ELSE LET raises ==
                 \/ WindowRaises(config.ema_fast)
                 \/ WindowRaises(config.ema_slow)
                 \/ (config.macd.enabled
                       /\ MacdRaises(config.macd.fast, config.macd.slow, config.macd.signal))
             close == df.cols.close
         IN  [symbol \in {"UNKNOWN"} |->
                IF raises THEN FALSE
                ELSE check_long_ok(close,
                         ema(close, config.ema_fast),
                         ema(close, config.ema_slow),
                         IF config.macd.enabled
                         THEN MacdLine(close, config.macd.fast, config.macd.slow)
                         ELSE <<>>,
                         config.macd.enabled)]

\* signals.get(symbol, False)
SignalFor(signals, symbol) ==
    IF symbol \in DOMAIN signals THEN signals[symbol] ELSE FALSE

\* the frame of an entry of data as select_assets scores it
DfAt(df, date) == IF date # NoDate THEN RowsUpTo(df, date) ELSE df

\* the symbol enters scores: its frame is not empty up to date, no indicator
\* raises, and its latest score is not below min_score
Scored(df, config, date) ==
    /\ ~FrameEmpty(df)
    /\ ~FrameEmpty(DfAt(df, date))
    /\ ~WindowRaises(config.ema_fast)
    /\ ~WindowRaises(config.atr_window)
    /\ LET symbol_scores ==
               calculate_scores_for_dataframe(DfAt(df, date), config.ema_fast, config.atr_window)
       IN  ~RLt(symbol_scores[Len(symbol_scores)], config.min_score)

LatestScore(df, config, date) ==
    LET symbol_scores ==
            calculate_scores_for_dataframe(DfAt(df, date), config.ema_fast, config.atr_window)
    IN  symbol_scores[Len(symbol_scores)]

\* long_ok_scores: the scored symbols whose long_ok signal is true, in the
\* order of data
RECURSIVE LongOkScores(_, _, _)
LongOkScores(data, config, date) ==
    IF data = <<>> THEN <<>>
    ELSE LET e == Head(data)
             rest == LongOkScores(Tail(data), config, date)
         IN  IF /\ Scored(e.df, config, date)
                /\ SignalFor(calculate_signals(DfAt(e.df, date), config), e.symbol)
             THEN <<[symbol |-> e.symbol, score |-> LatestScore(e.df, config, date)]>> \o rest
             ELSE rest

select_assets(data, returns, config, date) ==
    LET long_ok_scores == LongOkScores(data, config, date)
    IN  IF data = <<>> \/ long_ok_scores = <<>> THEN <<>>
        ELSE select_with_correlation_cap(long_ok_scores, returns, config.top_n,
                 config.corr_window, config.corr_cap, date)

-----------------------------------------------------------------------------
(* src/strategy/weighting.py                                               *)

\* the symbols of selected_symbols that get an inverse volatility: the
\* column exists, holds at least vol_window observations, and its trailing
\* volatility (over the LAST vol_window rows of the frame passed in) is a
\* number > 0
HasInvVol(symbol, returns, vol_window) ==
    /\ symbol \in DOMAIN returns
    /\ Len(returns[symbol]) >= vol_window
    /\ LET vol == StdevLast(returns[symbol], vol_window)
       IN  ~IsNaN(vol) /\ RGt(vol, Zero)

\* inv_vols: 1 / vol for every symbol that gets one
InvVols(selected_symbols, returns, vol_window) ==
    [s \in {q \in SeqRange(selected_symbols) : HasInvVol(q, returns, vol_window)} |->
        RDiv(One, StdevLast(returns[s], vol_window))]

\* weights = inv_vol / total_inv_vol
NormalizeInvVols(inv_vols, total_inv_vol) ==
    IF DOMAIN inv_vols = {} \/ total_inv_vol = Zero THEN <<>>
    ELSE [s \in DOMAIN inv_vols |-> RDiv(inv_vols[s], total_inv_vol)]

SumAndNormalize(inv_vols) == NormalizeInvVols(inv_vols, RSum(inv_vols))

calculate_inverse_vol_weights(selected_symbols, returns, vol_window) ==
    IF selected_symbols = <<>> THEN <<>>
    ELSE SumAndNormalize(InvVols(selected_symbols, returns, vol_window))

\* the first loop of apply_weight_caps: the weights clipped to the cap
CappedWeights(weights, max_weight_per_asset) ==
    [s \in DOMAIN weights |->
        IF RGt(weights[s], max_weight_per_asset) THEN max_weight_per_asset ELSE weights[s]]

\* ... and the excess it cut off
Excess(weights, max_weight_per_asset) ==
    LET over == {s \in DOMAIN weights : RGt(weights[s], max_weight_per_asset)}
    IN  RSumOver([s \in over |-> RSub(weights[s], max_weight_per_asset)], over)

\* one pass that hands the excess to the symbols below the cap, in
\* proportion to their capped weights
AddExcess(capped_weights, excess, uncapped_symbols, total_uncapped) ==
    IF RGt(excess, Zero) /\ uncapped_symbols # {} /\ RGt(total_uncapped, Zero)
    THEN [s \in DOMAIN capped_weights |->
            IF s \in uncapped_symbols
            THEN RAdd(capped_weights[s],
                      RMul(excess, RDiv(capped_weights[s], total_uncapped)))
            ELSE capped_weights[s]]
    ELSE capped_weights

RedistributeOver(capped_weights, excess, uncapped_symbols) ==
    AddExcess(capped_weights, excess, uncapped_symbols,
              RSumOver(capped_weights, uncapped_symbols))

Redistribute(capped_weights, excess, max_weight_per_asset) ==
    RedistributeOver(capped_weights, excess,
        {s \in DOMAIN capped_weights : RLt(capped_weights[s], max_weight_per_asset)})

\* the renormalisation to sum 1.0, skipped when the total is not > 0
DivideByTotal(capped_weights, total) ==
    IF RGt(total, Zero)
    THEN [s \in DOMAIN capped_weights |-> RDiv(capped_weights[s], total)]
    ELSE capped_weights

Renormalize(capped_weights) == DivideByTotal(capped_weights, RSum(capped_weights))

apply_weight_caps(weights, max_weight_per_asset) ==
    IF DOMAIN weights = {} THEN <<>>
    ELSE Renormalize(Redistribute(CappedWeights(weights, max_weight_per_asset),
                                  Excess(weights, max_weight_per_asset),
                                  max_weight_per_asset))

apply_cash_buffer(weights, cash_buffer) ==
    IF DOMAIN weights = {} THEN <<>>
    ELSE [s \in DOMAIN weights |-> RMul(weights[s], RSub(One, cash_buffer))]

\* the tolerance of the final check of calculate_weights, 0.01
WeightTol == R(1, 100)

\* calculate_weights without the cash buffer
calculate_weights_nobuffer(selected_symbols, returns, config) ==
    apply_weight_caps(
        calculate_inverse_vol_weights(selected_symbols, returns, config.vol_window),
        config.max_weight_per_asset)

\* the final check of calculate_weights: a sum further than the tolerance
\* from the expected total is rescaled, when it is > 0
RescaleTo(weights, total_weight, expected_total) ==
    IF RGt(RAbs(RSub(total_weight, expected_total)), WeightTol) /\ RGt(total_weight, Zero)
    THEN [s \in DOMAIN weights |-> RMul(RDiv(weights[s], total_weight), expected_total)]
    ELSE weights

VerifySum(weights, cash_buffer) ==
    RescaleTo(weights, RSum(weights), RSub(One, cash_buffer))

\* caps, cash buffer and final check, for the inverse-volatility weights
CapAndBuffer(weights, config) ==
    IF DOMAIN weights = {} THEN <<>>
    ELSE VerifySum(apply_cash_buffer(apply_weight_caps(weights, config.max_weight_per_asset),
                                     config.cash_buffer),
                   config.cash_buffer)

calculate_weights(selected_symbols, returns, config) ==
    IF selected_symbols = <<>> THEN <<>>
    ELSE CapAndBuffer(calculate_inverse_vol_weights(selected_symbols, returns,
                                                    config.vol_window),
                      config)

-----------------------------------------------------------------------------
(* src/strategy/backtest.py                                                *)
(* data is a sequence of [symbol, df]; df is a frame with the columns      *)
(* close, high and low.                                                    *)

RECURSIVE SortedSeq(_)
SortedSeq(S) ==
    IF S = {} THEN <<>>
    ELSE LET lo == CHOOSE x \in S : \A y \in S : x <= y
         IN  <<lo>> \o SortedSeq(S \ {lo})

\* the position of date in a frame's index, 0 when it has no such row
PosOf(index, date) ==
    IF \E i \in DOMAIN index : index[i] = date
    THEN CHOOSE i \in DOMAIN index : index[i] = date
    ELSE 0

\* all_dates: the sorted union of the frames' dates, cut to [start, end]
AllDates(data, start_date, end_date) ==
    LET all == UNION {SeqRange(data[k].df.index) : k \in DOMAIN data}
    IN  SortedSeq({d \in all : /\ (start_date # NoDate => d >= start_date)
                               /\ (end_date # NoDate => d <= end_date)})

\* df["close"].pct_change() at row k of the symbol's own frame
PctChangeAt(close, k) ==
    IF k = 1 THEN NaN ELSE RSub(RDiv(close[k], close[k - 1]), One)

FillNa(x) == IF IsNaN(x) THEN Zero ELSE x

\* pd.DataFrame(returns_dict).loc[all_dates].fillna(0.0)
AlignedReturns(data, all_dates) ==
    LET full == {k \in DOMAIN data : ~FrameEmpty(data[k].df)}
        dfOf(sym) == data[CHOOSE k \in full : data[k].symbol = sym].df
    IN  [index |-> all_dates,
         cols |-> [sym \in {data[k].symbol : k \in full} |->
                     [i \in DOMAIN all_dates |->
                        LET k == PosOf(dfOf(sym).index, all_dates[i])
                        IN  IF k = 0 THEN Zero
                            ELSE FillNa(PctChangeAt(dfOf(sym).cols.close, k))]]]

\* date_data: every non-empty frame cut to the rows dated <= date
RECURSIVE DateData(_, _)
DateData(data, date) ==
    IF data = <<>> THEN <<>>
    ELSE LET e == Head(data)
             rest == DateData(Tail(data), date)
         IN  IF ~FrameEmpty(e.df) /\ ~FrameEmpty(RowsUpTo(e.df, date))
             THEN <<[symbol |-> e.symbol, df |-> RowsUpTo(e.df, date)]>> \o rest
             ELSE rest

\* calculate_weights(selected, returns, config), handed the whole aligned
\* returns frame; nothing is stored when nothing is selected
WeightsOfSelected(selected, returns, config) ==
    IF selected = <<>> THEN <<>>
    ELSE calculate_weights(selected, returns.cols, config)

\* selection sees the frames cut to the date
WeightsOfDateData(date_data, returns, config, date) ==
    IF date_data = <<>> THEN <<>>
    ELSE WeightsOfSelected(select_assets(date_data, returns, config, date), returns, config)

\* the weights stored in weights_history for rebalance date number i
\* (1-based); the first date stores none
WeightsOn(data, returns, config, all_dates, i) ==
    IF i = 1 THEN <<>>
    ELSE WeightsOfDateData(DateData(data, all_dates[i]), returns, config, all_dates[i])

\* positions.loc[all_dates[j]]: the weights stored for the date before it
\* (written by the loop at that date into the row of the NEXT bar)
PositionRow(weights_history, columns, j) ==
    [sym \in columns |->
        IF j >= 2 /\ sym \in DOMAIN weights_history[j - 1]
        THEN weights_history[j - 1][sym] ELSE Zero]

\* portfolio_returns at all_dates[j]: positions of the previous bar times
\* the returns of this bar
PortfolioReturn(positions, returns, j) ==
    IF j = 1 THEN Zero
    ELSE RSumOver([sym \in DOMAIN returns.cols |->
                      RMul(positions[j - 1][sym], returns.cols[sym][j])],
                  DOMAIN returns.cols)

WeightOf(weights, sym) == IF sym \in DOMAIN weights THEN weights[sym] ELSE Zero

Turnover(weights_history, j) ==
    IF j = 1 THEN Zero
    ELSE LET prev_weights == weights_history[j - 1]
             curr_weights == weights_history[j]
             all_symbols == DOMAIN prev_weights \cup DOMAIN curr_weights
         IN  RSumOver([sym \in all_symbols |->
                          RAbs(RSub(WeightOf(curr_weights, sym), WeightOf(prev_weights, sym)))],
                      all_symbols)

\* slippage_bps / 10000.0
BpsPerUnit == 10000

\* variant that charges the commission only
calculate_costs_commission_only(turnover, commission_per_share, slippage_bps) ==
    [j \in DOMAIN turnover |-> RMul(turnover[j], commission_per_share)]

calculate_costs(turnover, commission_per_share, slippage_bps) ==
    [j \in DOMAIN turnover |->
        RAdd(RMul(turnover[j], commission_per_share),
             RMul(turnover[j], RDiv(slippage_bps, R(BpsPerUnit, 1))))]

RECURSIVE CumProd(_, _)
CumProd(net_returns, j) ==
    IF j = 1 THEN RAdd(One, net_returns[1])
    ELSE RMul(CumProd(net_returns, j - 1), RAdd(One, net_returns[j]))

\* run_backtest returns {}
NoResults == [ok |-> FALSE]

\* a Series or list built row by row, held as a sequence
AsSeq(rows) == rows \o <<>>

\* the results dict, from the net returns
Results(all_dates, weights_history, positions, turnover, costs, net_returns) ==
    [ok |-> TRUE,
     dates |-> all_dates,
     returns |-> net_returns,
     equity |-> AsSeq([j \in DOMAIN all_dates |-> CumProd(net_returns, j)]),
     positions |-> positions,
     weights_history |-> weights_history,
     turnover |-> turnover,
     costs |-> costs]

\* net_returns = portfolio_returns - costs
NetOfCosts(all_dates, weights_history, positions, turnover, costs, portfolio_returns) ==
    Results(all_dates, weights_history, positions, turnover, costs,
            AsSeq([j \in DOMAIN all_dates |-> RSub(portfolio_returns[j], costs[j])]))

\* the lagged portfolio returns and the costs of the turnover
Settle(all_dates, returns, config, weights_history, positions, turnover) ==
    NetOfCosts(all_dates, weights_history, positions, turnover,
               calculate_costs(turnover, config.commission_per_share, config.slippage_bps),
               AsSeq([j \in DOMAIN all_dates |-> PortfolioReturn(positions, returns, j)]))

\* positions and turnover from the stored weights
Account(all_dates, returns, config, weights_history) ==
    Settle(all_dates, returns, config, weights_history,
           AsSeq([j \in DOMAIN all_dates |->
                    PositionRow(weights_history, DOMAIN returns.cols, j)]),
           AsSeq([j \in DOMAIN all_dates |-> Turnover(weights_history, j)]))

\* the body of run_backtest once all_dates and the returns frame exist: the
\* rebalance loop, then the accounting of what it stored
Simulate(data, returns, all_dates, config) ==
    Account(all_dates, returns, config,
            AsSeq([i \in DOMAIN all_dates |->
                     WeightsOn(data, returns, config, all_dates, i)]))

\* the returns frame is built from the close prices of data
BacktestOver(data, config, all_dates) ==
    IF all_dates = <<>> \/ \A k \in DOMAIN data : FrameEmpty(data[k].df) THEN NoResults
    ELSE Simulate(data, AlignedReturns(data, all_dates), all_dates, config)

run_backtest(data, config, start_date, end_date) ==
    IF data = <<>> THEN NoResults
    ELSE BacktestOver(data, config, AllDates(data, start_date, end_date))

-----------------------------------------------------------------------------
(* src/strategy/metrics.py                                                 *)

\* Series.min() / Series.max(): NaN entries are skipped
RECURSIVE RMinSkipNa(_)
RMinSkipNa(xs) ==
    IF xs = <<>> THEN NaN
    ELSE LET rest == RMinSkipNa(Tail(xs))
         IN  IF IsNaN(Head(xs)) THEN rest
             ELSE IF IsNaN(rest) \/ RLt(Head(xs), rest) THEN Head(xs) ELSE rest

RECURSIVE RunningMax(_, _)
RunningMax(equity, j) ==
    IF j = 1 THEN equity[1] ELSE RMax(RunningMax(equity, j - 1), equity[j])

calculate_max_drawdown(equity) ==
    IF Len(equity) < 2 THEN Zero
    ELSE RMinSkipNa([j \in DOMAIN equity |->
                       RDiv(RSub(equity[j], RunningMax(equity, j)), RunningMax(equity, j))])

calculate_profit_factor(returns) ==
    LET gains == RSumSeq([j \in DOMAIN returns |->
                             IF RGt(returns[j], Zero) THEN returns[j] ELSE Zero])
        losses == RAbs(RSumSeq([j \in DOMAIN returns |->
                             IF RLt(returns[j], Zero) THEN returns[j] ELSE Zero]))
    IN  IF Len(returns) = 0 THEN Zero
        ELSE IF losses = Zero THEN (IF RGt(gains, Zero) THEN Inf ELSE Zero)
        ELSE RDiv(gains, losses)

\* periods_per_year
PeriodsPerYear == 252

calculate_turnover_annualized(turnover) ==
    IF Len(turnover) = 0 THEN Zero
    ELSE RMul(RDiv(RSumSeq(turnover), R(Len(turnover), 1)), R(PeriodsPerYear, 1))

\* the entries of calculate_all_metrics that are rational functions of the
\* backtest (CAGR, Sharpe and Calmar take a fractional power or a square root)
calculate_all_metrics(returns, equity, turnover) ==
    [MaxDD |-> calculate_max_drawdown(equity),
     PF |-> calculate_profit_factor(returns),
     Turnover |-> calculate_turnover_annualized(turnover)]

-----------------------------------------------------------------------------
(* src/strategy/walkforward.py: grid_search                                *)

\* None
NoneVal == <<>>

\* variant that hands the search every frame of data uncut
TrainDataUncut(data, train_start, train_end) == data

\* the frames of data cut to [train_start, train_end), empty ones dropped
RECURSIVE TrainData(_, _, _)
TrainData(data, train_start, train_end) ==
    IF data = <<>> THEN <<>>
    ELSE LET train_df == RowsBetween(Head(data).df, train_start, train_end)
             rest == TrainData(Tail(data), train_start, train_end)
         IN  IF FrameEmpty(train_df) THEN rest
             ELSE <<[symbol |-> Head(data).symbol, df |-> train_df]>> \o rest

\* the cells of the grid in the order of the four nested loops, the cells
\* with ema_fast >= ema_slow skipped
GridCells(param_grid) ==
    LET nf == Len(param_grid.ema_fast)
        ns == Len(param_grid.ema_slow)
        nt == Len(param_grid.top_n)
        nc == Len(param_grid.corr_cap)
        cell(k) ==
            [ema_fast |-> param_grid.ema_fast[((k - 1) \div (ns * nt * nc)) + 1],
             ema_slow |-> param_grid.ema_slow[(((k - 1) \div (nt * nc)) % ns) + 1],
             top_n |-> param_grid.top_n[(((k - 1) \div nc) % nt) + 1],
             corr_cap |-> param_grid.corr_cap[((k - 1) % nc) + 1]]
        all == [k \in 1..(nf * ns * nt * nc) |-> cell(k)]
    IN  PickFrom(all, {k \in DOMAIN all : all[k].ema_fast < all[k].ema_slow}, 1)

\* test_config: config with the four parameters of the cell
TestConfig(config, cell) ==
    [config EXCEPT !.ema_fast = cell.ema_fast, !.ema_slow = cell.ema_slow,
                   !.top_n = cell.top_n, !.corr_cap = cell.corr_cap]

\* Configuration objects are held by reference: objects is the sequence of
\* the AppConfig objects alive, a reference is a position in it, and the
\* caller's config is object 1.

\* test_config = config: the same object under another name
SameObject(objects, ref) == [objects |-> objects, ref |-> ref]

\* AppConfig(**config.model_dump()): a new object built from a dump of every
\* field of the object ref
ModelCopy(objects, ref) ==
    [objects |-> Append(objects, objects[ref]), ref |-> Len(objects) + 1]

\* the four attribute assignments on the object ref
AssignParams(objects, ref, params) ==
    [objects EXCEPT ![ref] = TestConfig(@, params)]

\* the objects after the cells k.. of the grid: every cell copies the
\* caller's config and assigns its parameters to the copy
RECURSIVE GridObjects(_, _, _)
GridObjects(objects, cells, k) ==
    IF k > Len(cells) THEN objects
    ELSE LET copy == ModelCopy(objects, 1)
         IN  GridObjects(AssignParams(copy.objects, copy.ref, cells[k]), cells, k + 1)

\* the caller's config object when grid_search returns
ConfigAfterGridSearch(data, returns, config, train_start, train_end) ==
    IF \/ TrainData(data, train_start, train_end) = <<>>
       \/ FrameEmpty(RowsBetween(returns, train_start, train_end))
    THEN config
    ELSE GridObjects(<<config>>, GridCells(config.reoptimize), 1)[1]

\* the loop with >= for >: the last of the cells with the best objective
RECURSIVE BestCellLastWins(_, _, _, _, _)
BestCellLastWins(cells, results, objective, k, best) ==
    IF k > Len(cells) THEN best
    ELSE LET metrics == calculate_all_metrics(results[k].returns, results[k].equity,
                                              results[k].turnover)
             better == results[k].ok /\ RGe(metrics[objective], best.score)
         IN  BestCellLastWins(cells, results, objective, k + 1,
                              IF better THEN [params |-> cells[k], score |-> metrics[objective]]
                              ELSE best)

\* the loop over the cells: results[k] is the backtest of cell k; a cell
\* whose objective is > best_score becomes the best
RECURSIVE BestCell(_, _, _, _, _)
BestCell(cells, results, objective, k, best) ==
    IF k > Len(cells) THEN best
    ELSE LET metrics == calculate_all_metrics(results[k].returns, results[k].equity,
                                              results[k].turnover)
             better == results[k].ok /\ RGt(metrics[objective], best.score)
         IN  BestCell(cells, results, objective, k + 1,
                      IF better THEN [params |-> cells[k], score |-> metrics[objective]]
                      ELSE best)

\* grid_search: the returns argument is filtered and tested for emptiness;
\* every backtest is run_backtest(train_data, test_config, ...), which
\* derives its returns from the prices in train_data
grid_search(data, returns, config, train_start, train_end) ==
    LET train_data == TrainData(data, train_start, train_end)
        train_returns == RowsBetween(returns, train_start, train_end)
        cells == GridCells(config.reoptimize)
        results == AsSeq([k \in DOMAIN cells |->
                            run_backtest(train_data, TestConfig(config, cells[k]),
                                         train_start, train_end)])
    IN  IF train_data = <<>> \/ FrameEmpty(train_returns)
        THEN [params |-> NoneVal, score |-> NegInf]
        ELSE BestCell(cells, results, config.objective, 1,
                      [params |-> NoneVal, score |-> NegInf])

-----------------------------------------------------------------------------
(* src/strategy/permutation.py                                             *)

\* The global generator of numpy.random is a deterministic function of its
\* state; a linear congruential generator stands for it.
RngSeed(seed) == seed % 65537
RngNext(state) == (state * 75 + 74) % 65537

\* seed=None
NoSeed == -1

Swap(seq, i, j) == [seq EXCEPT ![i] = seq[j], ![j] = seq[i]]

\* np.random.shuffle(indices): for i from the last position down to the
\* second, draw j among the first i positions and swap
RECURSIVE Shuffle(_, _, _)
Shuffle(indices, i, state) ==
    IF i < 2 THEN [indices |-> indices, state |-> state]
    ELSE LET drawn == RngNext(state)
             j == (drawn % i) + 1
         IN  Shuffle(Swap(indices, i, j), i - 1, drawn)

\* a reordering of the first column only, the other columns left in place
ReorderFirstColumn(returns, indices) ==
    LET first == CHOOSE c \in DOMAIN returns.cols : TRUE
    IN  [index |-> returns.index,
         cols |-> [c \in DOMAIN returns.cols |->
                     [k \in DOMAIN returns.index |->
                        IF c = first THEN returns.cols[c][indices[k]]
                        ELSE returns.cols[c][k]]]]

\* permuted.iloc[indices] under the original index
ReorderRows(returns, indices) ==
    [index |-> returns.index,
     cols |-> [c \in DOMAIN returns.cols |->
                 [k \in DOMAIN returns.index |-> returns.cols[c][indices[k]]]]]

\* permute_returns_joint(returns, seed) run from the global generator state
\* `state`: the permuted frame and the state it leaves behind
permute_returns_joint(returns, seed, state) ==
    IF FrameEmpty(returns) THEN [permuted |-> returns, state |-> state]
    ELSE LET seeded == IF seed # NoSeed THEN RngSeed(seed) ELSE state
             n == Len(returns.index)
             sh == Shuffle([k \in 1..n |-> k], n, seeded)
         IN  [permuted |-> ReorderRows(returns, sh.indices), state |-> sh.state]

\* variant of the p-value that counts the permuted scores > real_score
PValueStrict(permuted_scores, real_score) ==
    R(Cardinality({i \in DOMAIN permuted_scores : RGt(permuted_scores[i], real_score)}),
      Len(permuted_scores))

\* the fraction of permuted scores >= real_score
PValue(permuted_scores, real_score) ==
    R(Cardinality({i \in DOMAIN permuted_scores : RGe(permuted_scores[i], real_score)}),
      Len(permuted_scores))

-----------------------------------------------------------------------------
(* src/strategy/walkforward.py: generate_walkforward_windows               *)

\* timedelta(days=365 * train_years) and timedelta(days=30 * oos_months)
DaysPerYear == 365
DaysPerMonth == 30

\* the loop of a call that never leaves it is cut after MaxWindows windows
MaxWindows == 4

WfTrainEnd(train_start, train_years) == train_start + DaysPerYear * train_years

\* oos_end without the clamp
WfOosEndUnclamped(oos_start, oos_months, end_date) ==
    oos_start + DaysPerMonth * oos_months

\* oos_end = oos_start + 30 * oos_months, clamped to end_date
WfOosEnd(oos_start, oos_months, end_date) ==
    LET oos_end == oos_start + DaysPerMonth * oos_months
    IN  IF oos_end > end_date THEN end_date ELSE oos_end

\* the loop body reaches windows.append(...)
WfAppends(current_date, a) ==
    LET train_end == WfTrainEnd(current_date, a.train_years)
    IN  /\ current_date < a.end_date
        /\ ~(train_end > a.end_date)
        /\ ~(train_end >= WfOosEnd(train_end, a.oos_months, a.end_date))

\* one iteration that appends a window and advances current_date to oos_start
WfIterate ==
    /\ wf_pc = "loop"
    /\ Len(wf_windows) < MaxWindows
    /\ WfAppends(wf_current, wf_args)
    /\ LET train_start == wf_current
           train_end == WfTrainEnd(train_start, wf_args.train_years)
           oos_start == train_end
           oos_end == WfOosEnd(oos_start, wf_args.oos_months, wf_args.end_date)
       IN  /\ wf_windows' = Append(wf_windows,
                  [train_start |-> train_start, train_end |-> train_end,
                   oos_start |-> oos_start, oos_end |-> oos_end])
           /\ wf_current' = oos_start
    /\ UNCHANGED <<wf_pc, wf_args, wVars, sVars, bVars, aVars, pVars, np_random, kVars, gVars, rVars, tVars, cVars, eVars>>

\* the while condition fails or a break is taken: return windows
WfReturn ==
    /\ wf_pc = "loop"
    /\ ~WfAppends(wf_current, wf_args)
    /\ wf_pc' = "done"
    /\ UNCHANGED <<wf_args, wf_current, wf_windows, wVars, sVars, bVars, aVars, pVars, np_random, kVars, gVars, rVars, tVars, cVars, eVars>>

WfEndDates == {100, 365, 400, 455, 500, 730, 800, 1200}
WfTrainYears == {-1, 0, 1, 2}
WfOosMonths == {-1, 0, 1, 3, 13}

WfIdle ==
    /\ wf_pc = "idle"
    /\ wf_args = [start_date |-> 0, end_date |-> 0, train_years |-> 0, oos_months |-> 0]
    /\ wf_current = 0
    /\ wf_windows = <<>>

WfInit ==
    /\ wf_pc = "loop"
    /\ wf_args \in [start_date : {0, 10}, end_date : WfEndDates,
                     train_years : WfTrainYears, oos_months : WfOosMonths]
    /\ wf_current = wf_args.start_date
    /\ wf_windows = <<>>

-----------------------------------------------------------------------------
(* calculate_weights applied to bounded inputs                             *)

WSymbols == {"A", "B", "C"}

\* return columns of three rows: flat, two with one move, one volatile
WCols == { <<Zero, Zero, Zero>>,
           <<Zero, R(1, 10), Zero>>,
           <<Zero, R(2, 10), Zero>>,
           <<R(1, 10), R(-3, 10), R(1, 10)>> }

WSelections == { <<>>, <<"A">>, <<"A", "B">>, <<"B", "A", "C">>, <<"A", "D">> }

WConfigs == [vol_window : {1, 2, 3, 4},
             max_weight_per_asset : {Zero, R(3, 8), R(2, 5), R(1, 2), One},
             cash_buffer : {Zero, R(1, 20)}]

WIdle ==
    /\ w_pc = "idle"
    /\ w_selected = <<>>
    /\ w_returns = <<>>
    /\ w_cfg = [vol_window |-> 1, max_weight_per_asset |-> One, cash_buffer |-> Zero]
    /\ w_out = <<>>

WInit ==
    /\ w_pc = "call"
    /\ w_selected \in WSelections
    /\ w_returns \in [WSymbols -> WCols]
    /\ w_cfg \in WConfigs
    /\ w_out = <<>>

CalculateWeights ==
    /\ w_pc = "call"
    /\ w_out' = calculate_weights(w_selected, w_returns, w_cfg)
    /\ w_pc' = "done"
    /\ UNCHANGED <<w_selected, w_returns, w_cfg, wfVars, sVars, bVars, aVars, pVars, np_random, kVars, gVars, rVars, tVars, cVars, eVars>>

-----------------------------------------------------------------------------
(* select_with_correlation_cap applied to bounded inputs                   *)

SSymbols == {"A", "B", "C"}

\* return columns over four dates
SCols == { <<R(1, 10), R(2, 10), R(3, 10), R(2, 10)>>,
           <<R(2, 10), R(4, 10), R(5, 10), R(3, 10)>>,
           <<R(3, 10), R(2, 10), R(2, 10), R(4, 10)>>,
           <<R(1, 10), Zero, Zero, Zero>> }

SScoreVals == {One, R(9, 10)}

\* every order of two or three distinct symbols, each with a score
SScores ==
    {<<>>} \cup
    { [i \in 1..n |-> [symbol |-> syms[i], score |-> vals[i]]] :
        <<n, syms, vals>> \in
          UNION { {<<k, sy, va>> : sy \in {q \in [1..k -> SSymbols] :
                                              \A i, j \in 1..k : i # j => q[i] # q[j]},
                                   va \in [1..k -> SScoreVals]} : k \in 2..3 } }

SArgs == [top_n : {1, 2}, corr_window : {3, 5}, corr_cap : {R(7, 10)}, date : {3, NoDate}]

SIdle ==
    /\ s_pc = "idle"
    /\ s_scores = <<>>
    /\ s_returns = EmptyFrame
    /\ s_args = [top_n |-> 1, corr_window |-> 1, corr_cap |-> Zero, date |-> NoDate]
    /\ s_out = <<>>

\* seven scored symbols: A first, B to F with the return column of A, and G,
\* ranked last, with another column
SWide ==
    LET symbols == <<"A", "B", "C", "D", "E", "F", "G">>
    IN  [scores |-> [i \in DOMAIN symbols |->
                        [symbol |-> symbols[i], score |-> IF i = 1 THEN One ELSE R(9, 10)]],
         returns |-> [index |-> <<1, 2, 3, 4>>,
                      cols |-> [sym \in SeqRange(symbols) |->
                                   IF sym = "G" THEN <<R(3, 10), R(2, 10), R(2, 10), R(4, 10)>>
                                   ELSE <<R(1, 10), R(2, 10), R(3, 10), R(2, 10)>>]]]

SInit ==
    /\ s_pc = "call"
    /\ \/ /\ s_scores \in SScores
          /\ \E held \in {SSymbols, {"A", "B"}} : \E cols \in [held -> SCols] :
                s_returns = [index |-> <<1, 2, 3, 4>>, cols |-> cols]
       \/ /\ s_scores = SWide.scores
          /\ s_returns = SWide.returns
    /\ s_args \in SArgs
    /\ s_out = <<>>

SelectWithCorrelationCap ==
    /\ s_pc = "call"
    /\ s_out' = select_with_correlation_cap(s_scores, s_returns, s_args.top_n,
                    s_args.corr_window, s_args.corr_cap, s_args.date)
    /\ s_pc' = "done"
    /\ UNCHANGED <<s_scores, s_returns, s_args, wVars, wfVars, bVars, aVars, pVars, np_random, kVars, gVars, rVars, tVars, cVars, eVars>>

-----------------------------------------------------------------------------
(* run_backtest applied to bounded inputs                                  *)

\* a price frame from its dates and closes: high = close + 1, low = close - 1
MkFrame(index, closes) ==
    [index |-> index,
     cols |-> [close |-> [i \in DOMAIN closes |-> R(closes[i], 1)],
               high |-> [i \in DOMAIN closes |-> R(closes[i] + 1, 1)],
               low |-> [i \in DOMAIN closes |-> R(closes[i] - 1, 1)]]]

BtDates == <<1, 2, 3, 4>>
BtCloses == [DOMAIN BtDates -> {2, 4}]

\* two symbols: one named UNKNOWN, and SPY listed from the second date on
BtData(closes) ==
    << [symbol |-> "UNKNOWN", df |-> MkFrame(BtDates, closes)],
       [symbol |-> "SPY", df |-> MkFrame(<<2, 3, 4>>, <<2, 4, 8>>)] >>

MacdOff == [enabled |-> FALSE, fast |-> 12, slow |-> 26, signal |-> 9]
MacdOn == [enabled |-> TRUE, fast |-> 1, slow |-> 3, signal |-> 1]

BtConfigs ==
    [ema_fast : {3}, ema_slow : {7}, atr_window : {2}, macd : {MacdOff},
     min_score : {Zero}, top_n : {2}, corr_window : {2}, corr_cap : {R(7, 10)},
     vol_window : {2, 3}, max_weight_per_asset : {R(1, 2)}, cash_buffer : {R(1, 4)},
     commission_per_share : {Zero, R(1, 16)}, slippage_bps : {Zero, R(625, 1)},
     objective : {"MaxDD"}]

\* AppConfig(**fields): a pydantic model of typed fields without validators
\* or constraints; every int and float is accepted as it is
AppConfig(fields) == fields

\* degenerate configurations: ema_fast = ema_slow, ema_fast > ema_slow, and
\* a window of 0
BtDegenerate ==
    LET base == [ema_fast |-> 3, ema_slow |-> 7, atr_window |-> 2, macd |-> MacdOff,
                 min_score |-> Zero, top_n |-> 2, corr_window |-> 2, corr_cap |-> R(7, 10),
                 vol_window |-> 2, max_weight_per_asset |-> R(1, 2), cash_buffer |-> R(1, 4),
                 commission_per_share |-> Zero, slippage_bps |-> Zero, objective |-> "MaxDD"]
    IN  { [base EXCEPT !.ema_fast = 7],
          [base EXCEPT !.ema_fast = 7, !.ema_slow = 3],
          [base EXCEPT !.atr_window = 0],
          [base EXCEPT !.ema_fast = 0] }

BIdle ==
    /\ b_pc = "idle"
    /\ b_pc2 = "idle"
    /\ b_data = <<>>
    /\ b_data2 = <<>>
    /\ b_t = 0
    /\ b_cfg = <<>>
    /\ b_out = NoResults
    /\ b_out2 = NoResults

BInit ==
    /\ b_pc = "call"
    /\ b_pc2 = "call"
    /\ b_t \in {2, 3}
    /\ \E c1 \in BtCloses, c2 \in BtCloses :
          /\ \A i \in DOMAIN BtDates : BtDates[i] <= b_t => c1[i] = c2[i]
          /\ b_data = BtData(c1)
          /\ b_data2 = BtData(c2)
    /\ \E fields \in BtConfigs \cup BtDegenerate : b_cfg = AppConfig(fields)
    /\ b_out = NoResults
    /\ b_out2 = NoResults

RunBacktest ==
    /\ b_pc = "call"
    /\ b_out' = run_backtest(b_data, b_cfg, NoDate, NoDate)
    /\ b_pc' = "done"
    /\ UNCHANGED <<b_pc2, b_data, b_data2, b_t, b_cfg, b_out2, wVars, wfVars, sVars, aVars, pVars, np_random, kVars, gVars, rVars, tVars, cVars, eVars>>

RunBacktestPerturbed ==
    /\ b_pc2 = "call"
    /\ b_out2' = run_backtest(b_data2, b_cfg, NoDate, NoDate)
    /\ b_pc2' = "done"
    /\ UNCHANGED <<b_pc, b_data, b_data2, b_t, b_cfg, b_out, wVars, wfVars, sVars, aVars, pVars, np_random, kVars, gVars, rVars, tVars, cVars, eVars>>

-----------------------------------------------------------------------------
(* select_assets applied to bounded inputs                                 *)

ASymbols == {"SPY", "QQQ", "UNKNOWN"}
ADates == <<1, 2, 3>>
ACloses == [DOMAIN ADates -> {2, 4}]

\* two symbols, in either order of the dict
AData ==
    { << [symbol |-> s1, df |-> MkFrame(ADates, c1)],
         [symbol |-> s2, df |-> MkFrame(ADates, c2)] >> :
        <<s1, s2, c1, c2>> \in
            {q \in ASymbols \X ASymbols \X ACloses \X ACloses : q[1] # q[2]} }

AConfigs ==
    [ema_fast : {3}, ema_slow : {7}, atr_window : {2}, macd : {MacdOff, MacdOn},
     min_score : {Zero, R(1, 2)}, top_n : {1, 2}, corr_window : {2}, corr_cap : {R(7, 10)},
     vol_window : {2}, max_weight_per_asset : {R(1, 2)}, cash_buffer : {R(1, 4)},
     commission_per_share : {Zero}, slippage_bps : {Zero}, objective : {"MaxDD"}]

AIdle ==
    /\ a_pc = "idle"
    /\ a_data = <<>>
    /\ a_cfg = <<>>
    /\ a_date = NoDate
    /\ a_offered = {}
    /\ a_out = <<>>

AInit ==
    /\ a_pc = "call"
    /\ a_data \in AData
    /\ a_cfg \in AConfigs
    /\ a_date \in {NoDate, 2, 3}
    /\ a_offered = {}
    /\ a_out = <<>>

SelectAssets ==
    /\ a_pc = "call"
    /\ LET long_ok_scores == LongOkScores(a_data, a_cfg, a_date)
       IN  a_offered' = {long_ok_scores[i].symbol : i \in DOMAIN long_ok_scores}
    /\ a_out' = select_assets(a_data, AlignedReturns(a_data, ADates), a_cfg, a_date)
    /\ a_pc' = "done"
    /\ UNCHANGED <<a_data, a_cfg, a_date, wVars, wfVars, sVars, bVars, pVars, np_random, kVars, gVars, rVars, tVars, cVars, eVars>>

-----------------------------------------------------------------------------
(* run_permutation_test applied to bounded inputs                          *)

\* a grid of two cells, and a grid whose only cell has ema_fast >= ema_slow
PermGrids ==
    { [ema_fast |-> <<3, 7>>, ema_slow |-> <<7>>, top_n |-> <<1, 2>>, corr_cap |-> <<R(7, 10)>>],
      [ema_fast |-> <<7>>, ema_slow |-> <<7>>, top_n |-> <<2>>, corr_cap |-> <<R(7, 10)>>] }

PermConfigs ==
    [ema_fast : {3}, ema_slow : {7}, atr_window : {2}, macd : {MacdOff},
     min_score : {Zero}, top_n : {2}, corr_window : {2}, corr_cap : {R(7, 10)},
     vol_window : {2}, max_weight_per_asset : {R(1, 2)}, cash_buffer : {Zero},
     commission_per_share : {R(1, 4)}, slippage_bps : {Zero},
     objective : {"MaxDD", "PF", "Turnover"}, reoptimize : PermGrids]

\* the largest number of permutation runs
MaxRuns == 2

PermArgs == [train_start : {1}, train_end : {1, 5}, runs : 0..MaxRuns, seed : {1, 7}]

NoGridResult == [params |-> NoneVal, score |-> NegInf]

PIdle ==
    /\ p_pc = "idle"
    /\ p_data = <<>>
    /\ p_returns = EmptyFrame
    /\ p_cfg = <<>>
    /\ p_args = <<>>
    /\ p_run = 0
    /\ p_real_score = NoneVal
    /\ p_permuted_returns = EmptyFrame
    /\ p_permuted_grid_result = NoGridResult
    /\ p_permuted_scores = <<>>
    /\ p_result = <<>>

PInit ==
    /\ p_pc = "start"
    /\ \E closes \in BtCloses :
          /\ p_data = BtData(closes)
          /\ p_returns = AlignedReturns(BtData(closes), BtDates)
    /\ p_cfg \in PermConfigs
    /\ p_args \in PermArgs
    /\ p_run = 0
    /\ p_real_score = NoneVal
    /\ p_permuted_returns = EmptyFrame
    /\ p_permuted_grid_result = NoGridResult
    /\ p_permuted_scores = <<>>
    /\ p_result = <<>>
    /\ np_random = 0

PTrainData == TrainData(p_data, p_args.train_start, p_args.train_end)
PTrainReturns == RowsBetween(p_returns, p_args.train_start, p_args.train_end)

\* what follows the grid search on the real data: the early returns, or
\* the seeding of the generator before the loop
AfterRealSearch(real_grid_result) ==
    IF PTrainData = <<>> \/ FrameEmpty(PTrainReturns) \/ real_grid_result.params = NoneVal
    THEN /\ p_result' = [p_value |-> NoneVal, real_score |-> NoneVal,
                         permuted_scores |-> <<>>]
         /\ p_pc' = "done"
         /\ UNCHANGED <<p_real_score, np_random>>
    ELSE /\ p_real_score' = real_grid_result.score
         /\ np_random' = RngSeed(p_args.seed)
         /\ p_pc' = "loop"
         /\ UNCHANGED p_result

\* up to the loop: the filters, the grid search on the real data, the seeding
PermStart ==
    /\ p_pc = "start"
    /\ AfterRealSearch(grid_search(PTrainData, PTrainReturns, p_cfg,
                                   p_args.train_start, p_args.train_end))
    /\ p_cfg' = ConfigAfterGridSearch(PTrainData, PTrainReturns, p_cfg,
                                      p_args.train_start, p_args.train_end)
    /\ UNCHANGED <<p_data, p_returns, p_args, p_run, p_permuted_returns,
                   p_permuted_grid_result, p_permuted_scores,
                   wVars, wfVars, sVars, bVars, aVars, kVars, gVars, rVars, tVars, cVars, eVars>>

\* a valid score is appended to permuted_scores
RecordScore(permuted_grid_result) ==
    /\ p_permuted_grid_result' = permuted_grid_result
    /\ p_permuted_scores' =
          IF permuted_grid_result.params # NoneVal
          THEN Append(p_permuted_scores, permuted_grid_result.score)
          ELSE p_permuted_scores

\* the grid search of a run, handed the permuted returns
SearchPermuted(pr) ==
    /\ np_random' = pr.state
    /\ p_permuted_returns' = pr.permuted
    /\ RecordScore(grid_search(PTrainData, pr.permuted, p_cfg,
                               p_args.train_start, p_args.train_end))

\* one pass of the loop: permute, search the grid, record a valid score
PermRun ==
    /\ p_pc = "loop"
    /\ p_run < p_args.runs
    /\ SearchPermuted(permute_returns_joint(PTrainReturns, p_args.seed + p_run, np_random))
    /\ p_run' = p_run + 1
    /\ p_cfg' = ConfigAfterGridSearch(PTrainData, p_permuted_returns', p_cfg,
                                      p_args.train_start, p_args.train_end)
    /\ UNCHANGED <<p_pc, p_data, p_returns, p_args, p_real_score, p_result,
                   wVars, wfVars, sVars, bVars, aVars, kVars, gVars, rVars, tVars, cVars, eVars>>

\* after the loop: the p-value
PermReturn ==
    /\ p_pc = "loop"
    /\ p_run >= p_args.runs
    /\ p_result' =
          IF p_permuted_scores = <<>>
          THEN [p_value |-> NoneVal, real_score |-> p_real_score, permuted_scores |-> <<>>]
          ELSE [p_value |-> PValue(p_permuted_scores, p_real_score),
                real_score |-> p_real_score,
                permuted_scores |-> p_permuted_scores,
                runs |-> p_args.runs,
                valid_runs |-> Len(p_permuted_scores)]
    /\ p_pc' = "done"
    /\ UNCHANGED <<p_data, p_returns, p_cfg, p_args, p_run, p_real_score,
                   p_permuted_returns, p_permuted_grid_result, p_permuted_scores,
                   np_random, wVars, wfVars, sVars, bVars, aVars, kVars, gVars, rVars, tVars, cVars, eVars>>

-----------------------------------------------------------------------------
(* two workers calling permute_returns_joint on the shared generator      *)

Workers == {1, 2}

\* worker w executes permutation run w - 1, with seed + run
RunOf(w) == w - 1

KReturns ==
    { [index |-> <<1, 2, 3>>, cols |-> [SPY |-> c]] :
        c \in { <<R(1, 10), R(2, 10), R(3, 10)>>,
                <<Zero, R(-1, 10), R(1, 10)>>,
                <<R(1, 2), Zero, R(-1, 2)>> } }

KSeeds == {1, 2, 3, 42}

KIdle ==
    /\ k_pc = [w \in Workers |-> "idle"]
    /\ k_returns = EmptyFrame
    /\ k_seed = 0
    /\ k_out = [w \in Workers |-> EmptyFrame]

KInit ==
    /\ k_pc = [w \in Workers |-> "seed"]
    /\ k_returns \in KReturns
    /\ k_seed \in KSeeds
    /\ k_out = [w \in Workers |-> EmptyFrame]
    /\ np_random = 0

\* np.random.seed(seed) of worker w
WorkerSeed(w) ==
    /\ k_pc[w] = "seed"
    /\ np_random' = RngSeed(k_seed + RunOf(w))
    /\ k_pc' = [k_pc EXCEPT ![w] = "shuffle"]
    /\ UNCHANGED <<k_returns, k_seed, k_out, wVars, wfVars, sVars, bVars, aVars, pVars, gVars, rVars, tVars, cVars, eVars>>

\* the rest of permute_returns_joint of worker w: the shuffle draws from
\* the generator in the state it is in now
WorkerShuffle(w) ==
    /\ k_pc[w] = "shuffle"
    /\ LET pr == permute_returns_joint(k_returns, NoSeed, np_random)
       IN  /\ k_out' = [k_out EXCEPT ![w] = pr.permuted]
           /\ np_random' = pr.state
    /\ k_pc' = [k_pc EXCEPT ![w] = "done"]
    /\ UNCHANGED <<k_returns, k_seed, wVars, wfVars, sVars, bVars, aVars, pVars, gVars, rVars, tVars, cVars, eVars>>

-----------------------------------------------------------------------------
(* grid_search applied to bounded inputs                                   *)

\* a grid of six evaluated cells listed out of numeric order (the pair
\* ema_fast 3, ema_slow 3 is skipped), and a grid with every pair skipped
GridLists ==
    { [ema_fast |-> <<2, 3>>, ema_slow |-> <<7, 3>>, top_n |-> <<2, 1>>, corr_cap |-> <<R(7, 10)>>],
      [ema_fast |-> <<7>>, ema_slow |-> <<7, 3>>, top_n |-> <<1>>, corr_cap |-> <<R(7, 10)>>] }

GConfigs ==
    [ema_fast : {3}, ema_slow : {7}, atr_window : {2}, macd : {MacdOff},
     min_score : {Zero}, top_n : {2}, corr_window : {2}, corr_cap : {R(7, 10)},
     vol_window : {2}, max_weight_per_asset : {R(1, 2)}, cash_buffer : {Zero},
     commission_per_share : {R(1, 4)}, slippage_bps : {Zero},
     objective : {"MaxDD", "PF", "Turnover"}, reoptimize : GridLists]

GArgs == [train_start : {1}, train_end : {1, 4, 5}]

GIdle ==
    /\ g_pc = "idle"
    /\ g_data = <<>>
    /\ g_returns = EmptyFrame
    /\ g_cfg = <<>>
    /\ g_args = <<>>
    /\ g_out = NoGridResult

GInit ==
    /\ g_pc = "call"
    /\ \E closes \in BtCloses :
          /\ g_data = BtData(closes)
          /\ g_returns = AlignedReturns(BtData(closes), BtDates)
    /\ g_cfg \in GConfigs
    /\ g_args \in GArgs
    /\ g_out = NoGridResult

GridSearch ==
    /\ g_pc = "call"
    /\ g_out' = grid_search(g_data, g_returns, g_cfg, g_args.train_start, g_args.train_end)
    /\ g_pc' = "done"
    /\ g_cfg' = ConfigAfterGridSearch(g_data, g_returns, g_cfg,
                                      g_args.train_start, g_args.train_end)
    /\ UNCHANGED <<g_data, g_returns, g_args,
                   wVars, wfVars, sVars, bVars, aVars, pVars, np_random, kVars, rVars, tVars, cVars, eVars>>

-----------------------------------------------------------------------------
(* src/strategy/walkforward.py: run_walkforward                            *)

\* generate_walkforward_windows as one call: the loop from current_date on
RECURSIVE generate_walkforward_windows(_, _, _)
generate_walkforward_windows(current_date, a, windows) ==
    IF Len(windows) >= MaxWindows \/ ~WfAppends(current_date, a) THEN windows
    ELSE LET train_end == WfTrainEnd(current_date, a.train_years)
         IN  generate_walkforward_windows(train_end, a,
                 Append(windows,
                        [train_start |-> current_date, train_end |-> train_end,
                         oos_start |-> train_end,
                         oos_end |-> WfOosEnd(train_end, a.oos_months, a.end_date)]))

\* the frames of data cut to [oos_start, oos_end], empty ones dropped
RECURSIVE OosData(_, _, _)
OosData(data, oos_start, oos_end) ==
    IF data = <<>> THEN <<>>
    ELSE LET df == Head(data).df
             oos_df == FrameRows(df, {i \in DOMAIN df.index :
                                        df.index[i] >= oos_start /\ df.index[i] <= oos_end})
             rest == OosData(Tail(data), oos_start, oos_end)
         IN  IF FrameEmpty(oos_df) THEN rest
             ELSE <<[symbol |-> Head(data).symbol, df |-> oos_df]>> \o rest

\* the three lists of run_walkforward before the first window
NoWindowsRun == [chosen_params |-> <<>>, oos_results |-> <<>>, oos_equity_segments |-> <<>>]

\* the end of the loop body: the equity of the window's backtest is
\* normalised to start at 1 and stored with the window's result
RecordOos(window, i, acc, chosen, best_params, oos_results_window) ==
    IF ~oos_results_window.ok \/ oos_results_window.equity = <<>>
    THEN [acc EXCEPT !.chosen_params = chosen]
    ELSE [chosen_params |-> chosen,
          oos_equity_segments |->
              Append(acc.oos_equity_segments,
                     [index |-> oos_results_window.dates,
                      values |-> [j \in DOMAIN oos_results_window.equity |->
                                     RDiv(oos_results_window.equity[j],
                                          oos_results_window.equity[1])]]),
          oos_results |->
              Append(acc.oos_results,
                     [window |-> i, oos_start |-> window.oos_start,
                      oos_end |-> window.oos_end, params |-> best_params,
                      metrics |-> calculate_all_metrics(oos_results_window.returns,
                                                        oos_results_window.equity,
                                                        oos_results_window.turnover)])]

\* the best parameters are applied to the out-of-sample rows of data
RunOos(config, window, i, acc, chosen, best_params, oos_data) ==
    IF oos_data = <<>> THEN [acc EXCEPT !.chosen_params = chosen]
    ELSE RecordOos(window, i, acc, chosen, best_params,
                   run_backtest(oos_data, TestConfig(config, best_params),
                                window.oos_start, window.oos_end))

ApplyBest(data, config, window, i, acc, best_params) ==
    RunOos(config, window, i, acc,
           Append(acc.chosen_params, [oos_start |-> window.oos_start, params |-> best_params]),
           best_params, OosData(data, window.oos_start, window.oos_end))

\* the caller's config object after the loop body for a window: the grid
\* search, then the copy that receives the best parameters
ConfigAfterWindow(data, returns, config, window) ==
    LET searched == ConfigAfterGridSearch(data, returns, config,
                                          window.train_start, window.train_end)
        best_params == grid_search(data, returns, config,
                                   window.train_start, window.train_end).params
        copy == ModelCopy(<<searched>>, 1)
    IN  IF best_params = NoneVal THEN searched
        ELSE AssignParams(copy.objects, copy.ref, best_params)[1]

\* the loop body without the test of grid_result["params"]: the window's
\* parameters are recorded whatever they are
WalkforwardWindowUnchecked(data, returns, config, window, i, acc) ==
    LET best_params == grid_search(data, returns, config,
                                   window.train_start, window.train_end).params
    IN  IF best_params = NoneVal
        THEN [acc EXCEPT !.chosen_params =
                  Append(@, [oos_start |-> window.oos_start, params |-> best_params])]
        ELSE ApplyBest(data, config, window, i, acc, best_params)

\* the loop body for window i: acc holds chosen_params_history, oos_results
\* and oos_equity_segments
WalkforwardWindow(data, returns, config, window, i, acc) ==
    LET best_params == grid_search(data, returns, config,
                                   window.train_start, window.train_end).params
    IN  IF best_params = NoneVal THEN acc
        ELSE ApplyBest(data, config, window, i, acc, best_params)

RECURSIVE ConcatSeries(_)
ConcatSeries(segments) ==
    IF segments = <<>> THEN [index |-> <<>>, values |-> <<>>]
    ELSE LET rest == ConcatSeries(Tail(segments))
         IN  [index |-> Head(segments).index \o rest.index,
              values |-> Head(segments).values \o rest.values]

\* pd.concat, the first entry of every date kept, sorted by date
CombinedEquity(segments) ==
    LET all == ConcatSeries(segments)
        index == SortedSeq(SeqRange(all.index))
        first(d) == CHOOSE k \in DOMAIN all.index :
                        /\ all.index[k] = d
                        /\ \A m \in 1..(k - 1) : all.index[m] # d
    IN  [index |-> index,
         values |-> [j \in DOMAIN index |-> all.values[first(index[j])]]]

\* return {}
NoWalkforward == [ok |-> FALSE]

-----------------------------------------------------------------------------
(* run_walkforward applied to bounded inputs                               *)

\* dates every 100 days: dense, with no bar between 300 and 800, short, and
\* starting at day 400
RDates == { <<0, 100, 200, 300, 400, 500, 600, 700, 800, 900, 1000, 1100>>,
            <<0, 100, 200, 300, 800, 900, 1000, 1100, 1200>>,
            <<0, 100, 200, 300, 400, 500, 600, 700>>,
            <<400, 500, 600, 700, 800, 900, 1000, 1100, 1200>> }

RCloses == { <<2, 2, 4, 2>>, <<2, 4, 4, 2>>, <<4, 2, 4, 4>>, <<4, 2, 2, 4, 4>> }

\* the closes of a pattern repeated along the dates
RData(dates, closes) ==
    << [symbol |-> "UNKNOWN",
        df |-> MkFrame(dates, [i \in DOMAIN dates |-> closes[((i - 1) % Len(closes)) + 1]])],
       [symbol |-> "SPY",
        df |-> MkFrame(Tail(dates), [i \in DOMAIN Tail(dates) |-> 2 + 2 * (i % 2)])] >>

RConfigs ==
    { config @@ walkforward :
        config \in {c \in GConfigs : c.objective \in {"MaxDD", "PF"}},
        walkforward \in [train_years : {1}, oos_months : {6, 12}] }

RArgs == [start_date : {NoDate, 0}, end_date : {NoDate}]

RIdle ==
    /\ r_pc = "idle"
    /\ r_data = <<>>
    /\ r_returns = EmptyFrame
    /\ r_cfg = <<>>
    /\ r_args = <<>>
    /\ r_windows = <<>>
    /\ r_i = 0
    /\ r_chosen_params = <<>>
    /\ r_oos_results = <<>>
    /\ r_oos_equity_segments = <<>>
    /\ r_out = NoWalkforward

RInit ==
    /\ r_pc = "call"
    /\ \E dates \in RDates, closes \in RCloses :
          /\ r_data = RData(dates, closes)
          /\ r_returns = AlignedReturns(RData(dates, closes), dates)
    /\ r_cfg \in RConfigs
    /\ r_args \in RArgs
    /\ r_windows = <<>>
    /\ r_i = 0
    /\ r_chosen_params = <<>>
    /\ r_oos_results = <<>>
    /\ r_oos_equity_segments = <<>>
    /\ r_out = NoWalkforward

\* the date range and the windows; return {} when there is none
WalkforwardStart ==
    /\ r_pc = "call"
    /\ LET all_dates == AllDates(r_data, NoDate, NoDate)
           start_date == IF r_args.start_date = NoDate THEN all_dates[1]
                         ELSE r_args.start_date
           end_date == IF r_args.end_date = NoDate THEN all_dates[Len(all_dates)]
                       ELSE r_args.end_date
           windows == IF all_dates = <<>> THEN <<>>
                      ELSE generate_walkforward_windows(start_date,
                               [end_date |-> end_date,
                                train_years |-> r_cfg.train_years,
                                oos_months |-> r_cfg.oos_months], <<>>)
       IN  /\ r_windows' = windows
           /\ r_i' = 1
           /\ r_pc' = IF windows = <<>> THEN "done" ELSE "loop"
    /\ UNCHANGED <<r_data, r_returns, r_cfg, r_args, r_chosen_params, r_oos_results,
                   r_oos_equity_segments, r_out,
                   wVars, wfVars, sVars, bVars, aVars, pVars, np_random, kVars, gVars, tVars, cVars, eVars>>

\* one pass of the loop over the windows
WalkforwardIterate ==
    /\ r_pc = "loop"
    /\ r_i <= Len(r_windows)
    /\ \E acc \in {WalkforwardWindow(r_data, r_returns, r_cfg, r_windows[r_i], r_i,
                                     [chosen_params |-> r_chosen_params,
                                      oos_results |-> r_oos_results,
                                      oos_equity_segments |-> r_oos_equity_segments])} :
          /\ r_chosen_params' = acc.chosen_params
          /\ r_oos_results' = acc.oos_results
          /\ r_oos_equity_segments' = acc.oos_equity_segments
    /\ r_i' = r_i + 1
    /\ r_cfg' = ConfigAfterWindow(r_data, r_returns, r_cfg, r_windows[r_i])
    /\ UNCHANGED <<r_pc, r_data, r_returns, r_args, r_windows, r_out,
                   wVars, wfVars, sVars, bVars, aVars, pVars, np_random, kVars, gVars, tVars, cVars, eVars>>

\* after the last window: the segments are combined and the dict returned
WalkforwardReturn ==
    /\ r_pc = "loop"
    /\ r_i > Len(r_windows)
    /\ r_out' = [ok |-> TRUE, windows |-> r_windows, oos_results |-> r_oos_results,
                 oos_equity |-> CombinedEquity(r_oos_equity_segments),
                 chosen_params |-> r_chosen_params]
    /\ r_pc' = "done"
    /\ UNCHANGED <<r_data, r_returns, r_cfg, r_args, r_windows, r_i, r_chosen_params,
                   r_oos_results, r_oos_equity_segments,
                   wVars, wfVars, sVars, bVars, aVars, pVars, np_random, kVars, gVars, tVars, cVars, eVars>>

-----------------------------------------------------------------------------
(* src/core/retry.py: retry_with_backoff, async_retry_with_backoff         *)

\* the defaults of initial_delay, exponential_base and max_delay
InitialDelay == 1
ExponentialBase == 2
MaxDelay == 60

\* the largest max_attempts of a decorated function
MaxAttempts == 3

\* exception classes func may raise, with the class each one derives from
ExceptionTypes == {"ConnectionError", "ConnectionResetError", "TimeoutError",
                   "ValueError", "KeyboardInterrupt"}

BaseOf(type) ==
    CASE type = "ConnectionResetError" -> "ConnectionError"
      [] type = "KeyboardInterrupt" -> "BaseException"
      [] OTHER -> "Exception"

\* except exceptions as e, with every exception retried
RetriedAlways(type, exceptions) == TRUE

\* except exceptions as e: the class of e or a class it derives from is in
\* the tuple
Retried(type, exceptions) == type \in exceptions \/ BaseOf(type) \in exceptions

\* what one call of func does: it returns a value or raises
Outcomes == [kind : {"return"}, value : {"success", "other"}] \cup
            [kind : {"raise"}, value : ExceptionTypes]

NoOutcome == [kind |-> "none", value |-> "none"]

TIdle ==
    /\ t_pc = "idle"
    /\ t_wrapper = "none"
    /\ t_max_attempts = 0
    /\ t_exceptions = {}
    /\ t_attempt = 0
    /\ t_delay = 0
    /\ t_slept = 0
    /\ t_calls = <<>>
    /\ t_result = NoOutcome

\* wrapper(*args, **kwargs) up to the loop: delay = initial_delay
TInit ==
    /\ t_pc = "loop"
    /\ t_wrapper \in {"retry_with_backoff", "async_retry_with_backoff"}
    /\ t_max_attempts \in 0..MaxAttempts
    /\ t_exceptions \in {{"ConnectionError", "TimeoutError"}, {"ConnectionError"},
                         {"TimeoutError"}}
    /\ t_attempt = 1
    /\ t_delay = InitialDelay
    /\ t_slept = 0
    /\ t_calls = <<>>
    /\ t_result = NoOutcome

\* one pass of the loop: func is called (awaited in the async wrapper); its
\* value is returned, or its exception is raised again, or the wrapper
\* sleeps and goes to the next attempt
RetryAttempt ==
    /\ t_pc = "loop"
    /\ t_attempt <= t_max_attempts
    /\ \E outcome \in Outcomes :
          /\ t_calls' = Append(t_calls, outcome)
          /\ IF /\ outcome.kind = "raise"
                /\ Retried(outcome.value, t_exceptions)
                /\ t_attempt # t_max_attempts
             THEN /\ t_slept' = t_slept + t_delay
                  /\ t_delay' = Min(t_delay * ExponentialBase, MaxDelay)
                  /\ t_attempt' = t_attempt + 1
                  /\ UNCHANGED <<t_pc, t_result>>
             ELSE /\ t_result' = outcome
                  /\ t_pc' = "done"
                  /\ UNCHANGED <<t_slept, t_delay, t_attempt>>
    /\ UNCHANGED <<t_wrapper, t_max_attempts, t_exceptions,
                   wVars, wfVars, sVars, bVars, aVars, pVars, np_random, kVars, gVars, rVars, cVars, eVars>>

\* the loop ends without a call having returned or raised: last_exception
\* is None and RuntimeError is raised
RetryFallThrough ==
    /\ t_pc = "loop"
    /\ t_attempt > t_max_attempts
    /\ t_result' = [kind |-> "raise", value |-> "RuntimeError"]
    /\ t_pc' = "done"
    /\ UNCHANGED <<t_wrapper, t_max_attempts, t_exceptions, t_attempt, t_delay, t_slept,
                   t_calls,
                   wVars, wfVars, sVars, bVars, aVars, pVars, np_random, kVars, gVars, rVars, cVars, eVars>>

-----------------------------------------------------------------------------
(* src/data/cache.py: ParquetCache                                         *)

\* A frame is the sequence of its rows, a row a timestamp and a close; the
\* other required columns are present in every frame. Timestamps count
\* slots of a day.
SlotsPerDay == 2
MaxTimestamp == 3
MaxAppends == 2

\* timestamp.date()
DateOf(timestamp) == timestamp \div SlotsPerDay

FrameDates(df) == {DateOf(df[k].timestamp) : k \in DOMAIN df}

\* the frames write(symbol, df) may store: sorted by timestamp, one row per
\* timestamp. sort_index() is not a stable sort, so any of the rows that
\* share a timestamp may be the first one, which is kept.
WriteOutcomes(df) ==
    LET stamps == {df[k].timestamp : k \in DOMAIN df}
        index == SortedSeq(stamps)
        rows == SeqRange(df)
    IN  { [k \in DOMAIN index |-> keep[index[k]]] :
            keep \in {f \in [stamps -> rows] : \A t \in stamps : f[t].timestamp = t} }

\* every date of new_df, cached or not
AllNewDates(existing_df, new_df) == FrameDates(new_df)

\* dates_to_append = new_dates - existing_dates
DatesToAppend(existing_df, new_df) == FrameDates(new_df) \ FrameDates(existing_df)

\* the rows of new_df on the dates to append
DataToAppend(existing_df, new_df) ==
    SelectSeq(new_df, LAMBDA row : DateOf(row.timestamp) \in DatesToAppend(existing_df, new_df))

\* the frames the cache may hold after append(symbol, new_df); a missing
\* cache file reads as the empty frame
AppendOutcomes(existing_df, new_df) ==
    IF new_df = <<>> THEN {existing_df}
    ELSE IF existing_df = <<>> THEN WriteOutcomes(new_df)
    ELSE IF DatesToAppend(existing_df, new_df) = {} THEN {existing_df}
    ELSE IF DataToAppend(existing_df, new_df) = <<>> THEN {existing_df}
    ELSE WriteOutcomes(existing_df \o DataToAppend(existing_df, new_df))

-----------------------------------------------------------------------------
(* ParquetCache.append applied to bounded inputs                           *)

CRows == [timestamp : 0..MaxTimestamp, close : {1, 2}]

\* frames of up to two rows, in any order, timestamps repeated or not
CFrames == {<<>>} \cup {<<a>> : a \in CRows} \cup {<<a, b>> : a \in CRows, b \in CRows}

CIdle ==
    /\ c_cache = <<>>
    /\ c_prev = <<>>
    /\ c_new_df = <<>>
    /\ c_repeat = FALSE
    /\ c_appends = -1

\* no cache file
CInit ==
    /\ c_cache = <<>>
    /\ c_prev = <<>>
    /\ c_new_df = <<>>
    /\ c_repeat = FALSE
    /\ c_appends = 0

\* cache.append(symbol, new_df)
CacheAppend ==
    /\ c_appends >= 0 /\ c_appends < MaxAppends
    /\ \E new_df \in CFrames :
          /\ c_new_df' = new_df
          /\ c_cache' \in AppendOutcomes(c_cache, new_df)
    /\ c_prev' = c_cache
    /\ c_repeat' = FALSE
    /\ c_appends' = c_appends + 1
    /\ UNCHANGED <<wVars, wfVars, sVars, bVars, aVars, pVars, np_random, kVars, gVars, rVars, tVars, eVars>>

\* cache.append(symbol, new_df) with the frame of the append before
CacheAppendAgain ==
    /\ c_appends > 0
    /\ ~c_repeat
    /\ c_cache' \in AppendOutcomes(c_cache, c_new_df)
    /\ c_prev' = c_cache
    /\ c_repeat' = TRUE
    /\ UNCHANGED <<c_new_df, c_appends,
                   wVars, wfVars, sVars, bVars, aVars, pVars, np_random, kVars, gVars, rVars, tVars, eVars>>

-----------------------------------------------------------------------------
(* src/strategy/compliance.py, src/brokers/ibkr_exec.py                    *)

\* Dates are day numbers; datetime.now() is the clock e_now.
MaxDay == 2
Days == 0..MaxDay

\* the largest max_orders_per_day, and the most orders one set of weights
\* gives
MaxOrderLimit == 2
MaxOrders == 3

\* check_one_rebalance_per_day, with every date passing
check_rebalance_always_ok(last_rebalance_date, current_date) == TRUE

\* check_one_rebalance_per_day(current_date)
check_one_rebalance_per_day(last_rebalance_date, current_date) ==
    ~(last_rebalance_date # NoDate /\ last_rebalance_date = current_date)

\* check_max_orders_per_day()
check_max_orders_per_day(orders_today, max_orders) == ~(orders_today >= max_orders)

\* validate_trade: the errors of the three checks
validate_trade(settlement_ok, last_rebalance_date, orders_today, max_orders, current_date) ==
    (IF settlement_ok THEN {} ELSE {"settlement"}) \cup
    (IF check_one_rebalance_per_day(last_rebalance_date, current_date)
     THEN {} ELSE {"rebalance"}) \cup
    (IF check_max_orders_per_day(orders_today, max_orders) THEN {} ELSE {"max_orders"})

NoCall == [status |-> "none"]

\* what a call leaves behind for the observer: its arguments, the state of
\* the checker and the orders of the day before it, and its outcome
CallRecord(call, status, errors, placed) ==
    [status |-> status, errors |-> errors, dry_run |-> call.dry_run, day |-> e_now,
     placed |-> placed, last_before |-> e_last_rebalance_date,
     orders_before |-> e_orders_today, placed_before |-> e_placed[e_now],
     completed_before |-> e_completed]

\* a call that raises: nothing is placed and nothing recorded
Raises(call, status, errors) ==
    /\ e_result' = CallRecord(call, status, errors, 0)
    /\ UNCHANGED <<e_now, e_last_rebalance_date, e_orders_today, e_placed, e_completed>>

\* place_orders and what follows it. A dry run logs the orders. Otherwise
\* every order that placeOrder accepts is recorded with record_order, and
\* record_rebalance(datetime.now()) is called at the end, on the day of the
\* call or, when midnight has passed, on the next day.
PlaceAndRecord(call, orders) ==
    IF call.dry_run
    THEN /\ e_result' = CallRecord(call, "dry_run", {}, 0)
         /\ UNCHANGED <<e_now, e_last_rebalance_date, e_orders_today, e_placed, e_completed>>
    ELSE LET placed == IF call.failed >= orders THEN 0 ELSE orders - call.failed
             finished == IF call.past_midnight /\ e_now < MaxDay THEN e_now + 1 ELSE e_now
         IN  /\ e_orders_today' = e_orders_today + placed
             /\ e_placed' = [e_placed EXCEPT ![e_now] = @ + placed]
             /\ e_now' = finished
             /\ e_last_rebalance_date' = finished
             /\ e_completed' = e_completed \cup {finished}
             /\ e_result' = CallRecord(call, "placed", {}, placed)

ECalls == [dry_run : BOOLEAN, connected : BOOLEAN, settlement_ok : BOOLEAN,
           orders : 0..MaxOrders, failed : 0..1, past_midnight : BOOLEAN]

EIdle ==
    /\ e_now = -1
    /\ e_max_orders_per_day = 0
    /\ e_last_rebalance_date = NoDate
    /\ e_orders_today = 0
    /\ e_placed = <<>>
    /\ e_completed = {}
    /\ e_result = NoCall

\* IBKRExecutor(client, config): a new ComplianceChecker
EInit ==
    /\ e_now = 0
    /\ e_max_orders_per_day \in 1..MaxOrderLimit
    /\ e_last_rebalance_date = NoDate
    /\ e_orders_today = 0
    /\ e_placed = [d \in Days |-> 0]
    /\ e_completed = {}
    /\ e_result = NoCall

\* await executor.execute_rebalance(weights, ..., dry_run): the call runs
\* without suspending
ExecuteRebalance ==
    /\ e_now >= 0
    /\ \E call \in ECalls :
          LET errors == validate_trade(call.settlement_ok, e_last_rebalance_date,
                                       e_orders_today, e_max_orders_per_day, e_now)
              orders == Min(call.orders, e_max_orders_per_day)
          IN  IF ~call.connected THEN Raises(call, "connection_error", {})
              ELSE IF ~call.dry_run /\ errors # {} THEN Raises(call, "violation", errors)
              ELSE PlaceAndRecord(call, orders)
    /\ UNCHANGED <<e_max_orders_per_day,
                   wVars, wfVars, sVars, bVars, aVars, pVars, np_random, kVars, gVars, rVars, tVars, cVars>>

\* midnight passes between two calls
NextDay ==
    /\ e_now >= 0 /\ e_now < MaxDay
    /\ e_now' = e_now + 1
    /\ UNCHANGED <<e_max_orders_per_day, e_last_rebalance_date, e_orders_today, e_placed,
                   e_completed, e_result,
                   wVars, wfVars, sVars, bVars, aVars, pVars, np_random, kVars, gVars, rVars, tVars, cVars>>

-----------------------------------------------------------------------------
(* Specifications                                                          *)

InitWeights == WInit /\ WfIdle /\ SIdle /\ BIdle /\ AIdle /\ PIdle /\ KIdle /\ np_random = 0 /\ GIdle /\ RIdle /\ TIdle /\ CIdle /\ EIdle
NextWeights == CalculateWeights
SpecWeights == InitWeights /\ [][NextWeights]_vars

InitWindows == WfInit /\ WIdle /\ SIdle /\ BIdle /\ AIdle /\ PIdle /\ KIdle /\ np_random = 0 /\ GIdle /\ RIdle /\ TIdle /\ CIdle /\ EIdle

InitSelect == SInit /\ WIdle /\ WfIdle /\ BIdle /\ AIdle /\ PIdle /\ KIdle /\ np_random = 0 /\ GIdle /\ RIdle /\ TIdle /\ CIdle /\ EIdle

InitBacktest == BInit /\ WIdle /\ WfIdle /\ SIdle /\ AIdle /\ PIdle /\ KIdle /\ np_random = 0 /\ GIdle /\ RIdle /\ TIdle /\ CIdle /\ EIdle
NextBacktest == RunBacktest \/ RunBacktestPerturbed
SpecBacktest == InitBacktest /\ [][NextBacktest]_vars

InitAssets == AInit /\ WIdle /\ WfIdle /\ SIdle /\ BIdle /\ PIdle /\ KIdle /\ np_random = 0 /\ GIdle /\ RIdle /\ TIdle /\ CIdle /\ EIdle
NextAssets == SelectAssets
SpecAssets == InitAssets /\ [][NextAssets]_vars

InitPerm == PInit /\ KIdle /\ WIdle /\ WfIdle /\ SIdle /\ BIdle /\ AIdle /\ GIdle /\ RIdle /\ TIdle /\ CIdle /\ EIdle
NextPerm == PermStart \/ PermRun \/ PermReturn
SpecPerm == InitPerm /\ [][NextPerm]_vars

InitWorkers == KInit /\ PIdle /\ WIdle /\ WfIdle /\ SIdle /\ BIdle /\ AIdle /\ GIdle /\ RIdle /\ TIdle /\ CIdle /\ EIdle
NextWorkers == \E w \in Workers : WorkerSeed(w) \/ WorkerShuffle(w)
SpecWorkers == InitWorkers /\ [][NextWorkers]_vars
InitGrid == GInit /\ WIdle /\ WfIdle /\ SIdle /\ BIdle /\ AIdle /\ PIdle /\ KIdle /\ np_random = 0 /\ RIdle /\ TIdle /\ CIdle /\ EIdle
NextGrid == GridSearch
SpecGrid == InitGrid /\ [][NextGrid]_vars

\* a caller of grid_search, of run_permutation_test or of run_walkforward
InitRetry == TInit /\ GIdle /\ RIdle /\ WIdle /\ WfIdle /\ SIdle /\ BIdle /\ AIdle /\ PIdle /\ KIdle /\ np_random = 0 /\ CIdle /\ EIdle
NextRetry == RetryAttempt \/ RetryFallThrough
SpecRetry == InitRetry /\ [][NextRetry]_vars

InitCache == CInit /\ TIdle /\ GIdle /\ RIdle /\ WIdle /\ WfIdle /\ SIdle /\ BIdle /\ AIdle /\ PIdle /\ KIdle /\ np_random = 0 /\ EIdle
NextCache == CacheAppend \/ CacheAppendAgain
SpecCache == InitCache /\ [][NextCache]_vars

InitExec == EInit /\ CIdle /\ TIdle /\ GIdle /\ RIdle /\ WIdle /\ WfIdle /\ SIdle /\ BIdle /\ AIdle /\ PIdle /\ KIdle /\ np_random = 0
NextExec == ExecuteRebalance \/ NextDay
SpecExec == InitExec /\ [][NextExec]_vars

CallerInit ==
    \/ GInit /\ PIdle /\ RIdle /\ np_random = 0
    \/ PInit /\ GIdle /\ RIdle
    \/ RInit /\ GIdle /\ PIdle /\ np_random = 0
InitCallers == CallerInit /\ KIdle /\ WIdle /\ WfIdle /\ SIdle /\ BIdle /\ AIdle /\ TIdle /\ CIdle /\ EIdle
NextCallers ==
    \/ GridSearch
    \/ PermStart \/ PermRun \/ PermReturn
    \/ WalkforwardStart \/ WalkforwardIterate \/ WalkforwardReturn
SpecCallers == InitCallers /\ [][NextCallers]_vars

InitWalkforward == RInit /\ GIdle /\ WIdle /\ WfIdle /\ SIdle /\ BIdle /\ AIdle /\ PIdle /\ KIdle /\ np_random = 0 /\ TIdle /\ CIdle /\ EIdle
NextWalkforward == WalkforwardStart \/ WalkforwardIterate \/ WalkforwardReturn
SpecWalkforward == InitWalkforward /\ [][NextWalkforward]_vars

NextSelect == SelectWithCorrelationCap
SpecSelect == InitSelect /\ [][NextSelect]_vars
NextWindows == WfIterate \/ WfReturn
SpecWindows == InitWindows /\ [][NextWindows]_vars

-----------------------------------------------------------------------------
(* Properties                                                              *)

\* the outputs of a backtest at row j
BtRow(out, j) ==
    <<out.equity[j], out.returns[j], out.turnover[j], out.costs[j],
      out.positions[j], out.weights_history[j]>>

\* C1: two price inputs that agree on every bar dated <= t give identical
\* equity, net returns, turnover, costs, positions and weights_history
\* entries for every date <= t.
C1_NoLookAhead ==
    (b_pc = "done" /\ b_pc2 = "done" /\ b_out.ok /\ b_out2.ok) =>
        \A j \in DOMAIN b_out.dates :
            b_out.dates[j] <= b_t => BtRow(b_out, j) = BtRow(b_out2, j)

\* C2: the gross portfolio return recorded at t+1 is the sum over symbols of
\* weight_t[s] * return_{t+1}[s], weight_t being the WeightVector computed on
\* date t.
C2_OneBarLag ==
    (b_pc = "done" /\ b_out.ok) =>
        LET returns == AlignedReturns(b_data, b_out.dates)
        IN  \A j \in DOMAIN b_out.dates :
              j + 1 \in DOMAIN b_out.dates =>
                RAdd(b_out.returns[j + 1], b_out.costs[j + 1]) =
                  RSumOver([sym \in DOMAIN returns.cols |->
                              RMul(WeightOf(b_out.weights_history[j], sym),
                                   returns.cols[sym][j + 1])],
                           DOMAIN returns.cols)

\* the window the correlation matrix of the call is computed on
SWindow == get_correlation_matrix(s_returns, s_args.corr_window, s_args.date)

SDone == s_pc = "done" /\ ~FrameEmpty(SWindow)

\* corr(a, b) is a number in the window: both symbols have a return column
\* and neither column is constant
SCorrIsNumber(a, b) ==
    \A c \in {a, b} :
        /\ c \in DOMAIN SWindow.cols
        /\ \E i, j \in DOMAIN SWindow.cols[c] : SWindow.cols[c][i] # SWindow.cols[c][j]

\* |corr(a, b)| <= corr_cap, as cov(a,b)^2 <= cap^2 * var(a) * var(b)
SCorrWithinCap(a, b) ==
    LET xa == SWindow.cols[a]
        xb == SWindow.cols[b]
    IN  RLe(RMul(CoDev(xa, xb), CoDev(xa, xb)),
            RMul(RMul(s_args.corr_cap, s_args.corr_cap),
                 RMul(CoDev(xa, xa), CoDev(xb, xb))))

SSizeOk ==
    /\ Len(s_out) <= s_args.top_n
    /\ \A i, j \in DOMAIN s_out : i # j => s_out[i] # s_out[j]

\* C5 as stated: with a non-empty correlation matrix every pair of distinct
\* returned symbols has |corr(a,b)| <= corr_cap, and the list has at most
\* top_n symbols, none repeated.
C5_CorrCapEveryPair ==
    SDone =>
        /\ \A i, j \in DOMAIN s_out :
              i # j => SCorrIsNumber(s_out[i], s_out[j]) /\ SCorrWithinCap(s_out[i], s_out[j])
        /\ SSizeOk

\* C5 amended: with a non-empty correlation matrix every pair of distinct
\* returned symbols whose correlation is a number has |corr(a,b)| <= corr_cap
\* (a pair whose correlation is NaN, or one of whose symbols has no return
\* column, is admitted), and the list has at most top_n symbols, none repeated.
C5_CorrCap ==
    SDone =>
        /\ \A i, j \in DOMAIN s_out :
              (i # j /\ SCorrIsNumber(s_out[i], s_out[j])) =>
                  SCorrWithinCap(s_out[i], s_out[j])
        /\ SSizeOk

\* two symbols returned after the second-ranked candidate was rejected
C5_Witness ==
    /\ SDone
    /\ Len(s_scores) = 3
    /\ Len(s_out) = 2
    /\ SCorrIsNumber(s_out[1], s_out[2])
    /\ s_out[2] = SortByScoreDesc(s_scores)[3].symbol

\* the gate of an entry of a_data on a_date: latest EMA_fast > latest
\* EMA_slow, and latest MACD line > 0 when MACD is enabled
AGate(df) ==
    LET close == DfAt(df, a_date).cols.close
        n == Len(close)
    IN  /\ RGt(EmaAt(close, a_cfg.ema_fast, n), EmaAt(close, a_cfg.ema_slow, n))
        /\ a_cfg.macd.enabled =>
              RGt(RSub(EmaAt(close, a_cfg.macd.fast, n), EmaAt(close, a_cfg.macd.slow, n)), Zero)

\* C9: select_assets offers a symbol to the correlation-capped selector
\* exactly when its latest score is >= min_score and its gate is true,
\* whatever its name.
C9_GateAnyName ==
    a_pc = "done" =>
        \A k \in DOMAIN a_data :
            a_data[k].symbol \in a_offered <=>
                (RGe(LatestScore(a_data[k].df, a_cfg, a_date), a_cfg.min_score)
                   /\ AGate(a_data[k].df))

\* the grid search of the training window with every backtest realising the
\* rows of the returns frame it is handed
SearchRealising(returns) ==
    LET train_data == PTrainData
        all_dates == AllDates(train_data, p_args.train_start, p_args.train_end)
        cells == GridCells(p_cfg.reoptimize)
        results == [k \in DOMAIN cells |->
                      Simulate(train_data, returns, all_dates, TestConfig(p_cfg, cells[k]))]
    IN  BestCell(cells, results, p_cfg.objective, 1, NoGridResult)

\* C6: the best score recorded for a permutation run is the best score of
\* the grid search whose backtests realise the permuted rows of that run.
C6_ScoreOfPermutedRows ==
    (p_pc \in {"loop", "done"} /\ p_run > 0 /\ p_permuted_grid_result.params # NoneVal) =>
        /\ p_permuted_scores[Len(p_permuted_scores)] = p_permuted_grid_result.score
        /\ p_permuted_grid_result.score = SearchRealising(p_permuted_returns).score

\* C7: with at least one valid permuted score the p-value is the number of
\* permuted scores >= real_score over valid_runs, valid_runs <= runs and
\* 0 <= p_value <= 1; otherwise (no valid run, or no valid parameters on
\* the real data) p_value is None.
C7_PValue ==
    p_pc = "done" =>
        IF p_real_score # NoneVal /\ p_permuted_scores # <<>>
        THEN /\ p_result.valid_runs = Len(p_permuted_scores)
             /\ p_result.valid_runs <= p_args.runs
             /\ p_result.p_value =
                   R(Cardinality({i \in DOMAIN p_permuted_scores :
                                     RGe(p_permuted_scores[i], p_real_score)}),
                     p_result.valid_runs)
             /\ RLe(Zero, p_result.p_value) /\ RLe(p_result.p_value, One)
        ELSE p_result.p_value = NoneVal

\* a test that returned a p-value from two valid permutation runs
C7_Witness ==
    /\ p_pc = "done"
    /\ Len(p_permuted_scores) = 2
    /\ p_result.p_value # NoneVal

\* C8: the permuted frame of run i depends only on the input frame and
\* seed + i: whatever the interleaving of the two workers, each gets the
\* frame a serial call with its seed gives.
C8_SeededDeterminism ==
    \A w \in Workers :
        k_pc[w] = "done" =>
            k_out[w] = permute_returns_joint(k_returns, k_seed + RunOf(w), 0).permuted

WDone == w_pc = "done" /\ DOMAIN w_out # {}

\* C3: every weight of a non-empty WeightVector returned by calculate_weights
\* is <= max_weight_per_asset + 0.01, for any number of selected symbols.
C3_PerAssetCap ==
    WDone => \A s \in DOMAIN w_out :
                RLe(w_out[s], RAdd(w_cfg.max_weight_per_asset, WeightTol))

WSumOk ==
    /\ \A s \in DOMAIN w_out : RGe(w_out[s], Zero)
    /\ RLe(RAbs(RSub(RSum(w_out), RSub(One, w_cfg.cash_buffer))), WeightTol)

\* C4 as stated: every non-empty WeightVector returned by calculate_weights
\* has all weights >= 0 and a sum within 0.01 of 1 - cash_buffer, whatever
\* max_weight_per_asset is.
C4_WeightSumAnyCap == WDone => WSumOk

\* C4 amended: the same, for every max_weight_per_asset > 0.
C4_WeightSum == (WDone /\ RGt(w_cfg.max_weight_per_asset, Zero)) => WSumOk

\* a vector of three weights whose raw inverse-volatility weights were cut
\* by the cap and renormalised
C4_Witness ==
    /\ WDone
    /\ Cardinality(DOMAIN w_out) = 3
    /\ w_cfg.max_weight_per_asset = R(2, 5)
    /\ w_cfg.cash_buffer = R(1, 20)
    /\ \E s \in DOMAIN w_out :
          RGt(calculate_inverse_vol_weights(w_selected, w_returns, w_cfg.vol_window)[s],
              w_cfg.max_weight_per_asset)

WfWindowOrdered(w, a) ==
    /\ a.start_date <= w.train_start
    /\ w.train_start < w.train_end
    /\ w.train_end <= w.oos_start
    /\ w.oos_start < w.oos_end
    /\ w.oos_end <= a.end_date

\* C10: every window returned by generate_walkforward_windows satisfies
\* start_date <= train_start < train_end <= oos_start < oos_end <= end_date.
C10_WindowOrder ==
    wf_pc = "done" => \A i \in DOMAIN wf_windows : WfWindowOrdered(wf_windows[i], wf_args)

\* a returned list of two windows, the second with its OOS end clamped
C10_Witness ==
    /\ wf_pc = "done"
    /\ Len(wf_windows) >= 2
    /\ wf_windows[Len(wf_windows)].oos_end = wf_args.end_date
    /\ wf_windows[1].oos_end < wf_args.end_date

\* C11: for any two distinct windows returned by generate_walkforward_windows
\* the OOS ranges do not overlap (the earlier oos_end <= the later oos_start)
\* and the windows are listed in strictly increasing oos_start.
C11_OosDisjoint ==
    wf_pc = "done" =>
        \A i, j \in DOMAIN wf_windows :
            i < j => /\ wf_windows[i].oos_end <= wf_windows[j].oos_start
                     /\ wf_windows[i].oos_start < wf_windows[j].oos_start

\* C12: each iteration of the loop of generate_walkforward_windows either
\* stops the loop or strictly advances the window start, so the call
\* terminates.
C12_IterationAdvances ==
    [][(wf_pc = "loop" /\ wf_pc' = "loop") => wf_current' > wf_current]_vars

\* the combinations of the Cartesian grid with ema_fast < ema_slow, each as
\* the tuple of its positions in the four lists of the grid
GCombinations ==
    LET grid == g_cfg.reoptimize
    IN  {c \in (DOMAIN grid.ema_fast) \X (DOMAIN grid.ema_slow) \X
                (DOMAIN grid.top_n) \X (DOMAIN grid.corr_cap) :
            grid.ema_fast[c[1]] < grid.ema_slow[c[2]]}

GParams(c) ==
    LET grid == g_cfg.reoptimize
    IN  [ema_fast |-> grid.ema_fast[c[1]], ema_slow |-> grid.ema_slow[c[2]],
         top_n |-> grid.top_n[c[3]], corr_cap |-> grid.corr_cap[c[4]]]

\* the objective of every combination on the training window; NaN for a
\* combination whose backtest returned nothing
GObjectives ==
    LET train_data == TrainData(g_data, g_args.train_start, g_args.train_end)
        objective(c) ==
            LET results == run_backtest(train_data, TestConfig(g_cfg, GParams(c)),
                                        g_args.train_start, g_args.train_end)
            IN  IF results.ok
                THEN calculate_all_metrics(results.returns, results.equity,
                                           results.turnover)[g_cfg.objective]
                ELSE NaN
    IN  [c \in GCombinations |-> objective(c)] @@ <<>>

\* iteration order: ema_fast, then ema_slow, then top_n, then corr_cap
GBefore(c, d) ==
    \E i \in 1..4 : c[i] < d[i] /\ \A j \in 1..(i - 1) : c[j] = d[j]

\* C13: grid_search returns the combination with the maximum objective among
\* the evaluated combinations with ema_fast < ema_slow, the first in iteration
\* order among equals, never one with ema_fast >= ema_slow, and params None
\* exactly when no combination produced a valid score.
C13_GridArgmax ==
    g_pc = "done" =>
        LET objectives == GObjectives
            valid == {c \in GCombinations :
                         ~IsNaN(objectives[c]) /\ objectives[c] # NegInf}
        IN  IF valid = {} THEN g_out.params = NoneVal
            ELSE \E c \in valid :
                    /\ g_out.params = GParams(c)
                    /\ g_out.score = objectives[c]
                    /\ g_out.params.ema_fast < g_out.params.ema_slow
                    /\ \A d \in valid :
                          /\ RLe(objectives[d], objectives[c])
                          /\ (objectives[d] = objectives[c] /\ d # c) => GBefore(c, d)

\* a search that returned a combination other than the first of the grid,
\* with another combination reaching the same objective later in the grid
C13_Witness ==
    /\ g_pc = "done"
    /\ g_out.params # NoneVal
    /\ g_out.params # GParams(<<1, 1, 1, 1>>)
    /\ \E c \in GCombinations :
          GParams(c) # g_out.params /\ GObjectives[c] = g_out.score

\* a degenerate configuration: ema_fast >= ema_slow, or a window <= 0
Degenerate(config) ==
    \/ config.ema_fast >= config.ema_slow
    \/ \E window \in {config.ema_fast, config.ema_slow, config.atr_window,
                       config.corr_window, config.vol_window} : window <= 0

\* C14: a degenerate configuration is rejected before any simulation step:
\* AppConfig construction followed by run_backtest returns no normal result
\* for it.
C14_DegenerateRejected ==
    (b_pc = "done" /\ Degenerate(b_cfg)) => ~b_out.ok

\* C15: with an empty correlation matrix (fewer than corr_window return
\* observations dated <= the evaluation date) select_with_correlation_cap
\* returns exactly one symbol, the top-scoring candidate, for every top_n >= 1.
C15_FallbackSingle ==
    (s_pc = "done" /\ s_scores # <<>> /\ FrameEmpty(SWindow)) =>
        /\ Len(s_out) = 1
        /\ \E i \in DOMAIN s_scores :
              /\ s_scores[i].symbol = s_out[1]
              /\ \A j \in DOMAIN s_scores : RGe(s_scores[i].score, s_scores[j].score)

\* C16: the returned selection is the same for every insertion order of the
\* scores mapping: a call on any reordering of the same (symbol, score)
\* entries returns the same list.
C16_InsertionOrder ==
    s_pc = "done" =>
        \A scores \in SScores :
            {scores[i] : i \in DOMAIN scores} = {s_scores[i] : i \in DOMAIN s_scores} =>
                select_with_correlation_cap(scores, s_returns, s_args.top_n,
                    s_args.corr_window, s_args.corr_cap, s_args.date) = s_out

\* the pool of the reference greedy: the candidates by score descending, the
\* first 3 * top_n of them
SPool ==
    LET sorted == SortByScoreDesc(s_scores)
    IN  [i \in 1..Min(Len(sorted), 3 * s_args.top_n) |-> sorted[i].symbol]

\* the reference greedy: walk the pool in order, admit a candidate iff its
\* test against every admitted symbol passes, stop once top_n are admitted
\* or the pool is exhausted.  strict: the test is |corr| <= corr_cap, which
\* a correlation that is no number fails; otherwise such a pair passes.
RECURSIVE SReference(_, _, _)
SReference(k, admitted, strict) ==
    IF k > Len(SPool) \/ Len(admitted) >= s_args.top_n THEN admitted
    ELSE LET passes(a, b) ==
                 IF SCorrIsNumber(a, b) THEN SCorrWithinCap(a, b) ELSE ~strict
             admit == \A i \in DOMAIN admitted : passes(SPool[k], admitted[i])
         IN  SReference(k + 1, IF admit THEN Append(admitted, SPool[k]) ELSE admitted,
                        strict)

C18_EquityAccounting ==
    (b_pc = "done" /\ b_out.ok) =>
        LET returns == AlignedReturns(b_data, b_out.dates)
            weight(j, sym) == IF sym \in DOMAIN b_out.weights_history[j]
                              THEN b_out.weights_history[j][sym] ELSE Zero
        IN  /\ b_out.equity[1] = One
            /\ \A j \in DOMAIN b_out.dates : j > 1 =>
                  LET symbols == DOMAIN b_out.weights_history[j] \cup
                                 DOMAIN b_out.weights_history[j - 1]
                      gross == RSumOver([sym \in DOMAIN returns.cols |->
                                            RMul(b_out.positions[j - 1][sym],
                                                 returns.cols[sym][j])],
                                        DOMAIN returns.cols)
                  IN  /\ b_out.equity[j] =
                            RMul(b_out.equity[j - 1], RAdd(One, b_out.returns[j]))
                      /\ b_out.returns[j] = RSub(gross, b_out.costs[j])
                      /\ b_out.costs[j] =
                            RAdd(RMul(b_out.turnover[j], b_cfg.commission_per_share),
                                 RMul(b_out.turnover[j], RDiv(b_cfg.slippage_bps, R(10000, 1))))
                      /\ b_out.turnover[j] =
                            RSumOver([sym \in symbols |->
                                         RAbs(RSub(weight(j, sym), weight(j - 1, sym)))],
                                     symbols)

\* a run with commission and slippage that traded on a date and realised a
\* non-zero gross return later
C18_Witness ==
    /\ b_pc = "done" /\ b_out.ok
    /\ b_cfg.commission_per_share # Zero /\ b_cfg.slippage_bps # Zero
    /\ \E j \in DOMAIN b_out.dates : b_out.costs[j] # Zero
    /\ \E j \in DOMAIN b_out.dates :
          RAdd(b_out.returns[j], b_out.costs[j]) # Zero

\* C19: on a date whose weight vector is empty, run_backtest leaves equity
\* unchanged (equity_t = equity_{t-1}), also when the weight vector of the
\* previous date was not empty.
C19_CashCarryForward ==
    (b_pc = "done" /\ b_out.ok) =>
        \A j \in DOMAIN b_out.dates :
            (j > 1 /\ DOMAIN b_out.weights_history[j] = {}) =>
                b_out.equity[j] = b_out.equity[j - 1]

\* the parameters grid_search gives for the training range of window i
RGridParams(i) ==
    grid_search(r_data, r_returns, r_cfg,
                r_windows[i].train_start, r_windows[i].train_end).params

\* C20: a window for which grid_search yields no parameters leaves no
\* ChosenParams entry, no OOS result and no equity segment, and the windows
\* after it are still processed; every OOS result carries the parameters
\* chosen for its own window.
C20_WindowIsolation ==
    (r_pc \in {"loop", "done"}) =>
        LET params == AsSeq([i \in DOMAIN r_windows |->
                               IF i < r_i THEN RGridParams(i) ELSE NoneVal])
            valid == {i \in DOMAIN r_windows : i < r_i /\ params[i] # NoneVal}
            rank(i) == Cardinality({m \in valid : m <= i})
        IN  /\ Len(r_chosen_params) = Cardinality(valid)
            /\ \A i \in valid :
                  r_chosen_params[rank(i)] =
                      [oos_start |-> r_windows[i].oos_start, params |-> params[i]]
            /\ \A k \in DOMAIN r_oos_results :
                  /\ r_oos_results[k].window \in valid
                  /\ r_oos_results[k].params = params[r_oos_results[k].window]
                  /\ r_oos_results[k].oos_start =
                         r_windows[r_oos_results[k].window].oos_start
                  /\ \A m \in DOMAIN r_oos_results :
                        m < k => r_oos_results[m].window < r_oos_results[k].window
            /\ Len(r_oos_equity_segments) = Len(r_oos_results)
            /\ \A k \in DOMAIN r_oos_equity_segments :
                  \A j \in DOMAIN r_oos_equity_segments[k].index :
                      LET window == r_windows[r_oos_results[k].window]
                          d == r_oos_equity_segments[k].index[j]
                      IN  d >= window.oos_start /\ d <= window.oos_end
            /\ (r_pc = "done" /\ r_out.ok) =>
                  /\ r_i = Len(r_windows) + 1
                  /\ r_out.chosen_params = r_chosen_params
                  /\ r_out.oos_results = r_oos_results

\* a finished run in which a window without parameters is followed by
\* windows with OOS results that carry different parameters
C20_Witness ==
    /\ r_pc = "done" /\ r_out.ok
    /\ \E i \in DOMAIN r_windows :
          /\ RGridParams(i) = NoneVal
          /\ \E k \in DOMAIN r_out.oos_results : r_out.oos_results[k].window > i
    /\ \E k, m \in DOMAIN r_out.oos_results :
          r_out.oos_results[k].params # r_out.oos_results[m].params

\* C21: grid_search, run_permutation_test and run_walkforward leave the
\* caller's config (every field), the price frames in data and the returns
\* matrix as they were: no step of theirs changes one of them.
C21_InputsUnchanged ==
    [][/\ g_cfg' = g_cfg /\ g_data' = g_data /\ g_returns' = g_returns
       /\ p_cfg' = p_cfg /\ p_data' = p_data /\ p_returns' = p_returns
       /\ r_cfg' = r_cfg /\ r_data' = r_data /\ r_returns' = r_returns]_vars

\* a walk-forward run that applied parameters other than the caller's, a
\* grid search that chose such parameters, or a permutation test that ran
\* a search on permuted returns
C21_Witness ==
    \/ /\ r_pc = "done" /\ r_out.ok
       /\ \E k \in DOMAIN r_out.oos_results :
             r_out.oos_results[k].params.ema_fast # r_cfg.ema_fast
    \/ /\ g_pc = "done" /\ g_out.params # NoneVal
       /\ g_out.params.ema_fast # g_cfg.ema_fast
    \/ /\ p_pc = "done" /\ p_permuted_scores # <<>>
       /\ p_permuted_returns # PTrainReturns

\* the row of a frame at position k: the values of all columns
FrameRow(frame, k) == [c \in DOMAIN frame.cols |-> frame.cols[c][k]]

\* the generator states a call may find
RngStates == {0, 1, 74, 5000, 65536}

\* C22: the frame permute_returns_joint returns has the index and the
\* columns of its input, every row of it is a whole row of the input, each
\* row occurring as often as in the input, and the same seed gives the same
\* output whatever the state of the generator before the call.
C22_JointPermutation ==
    (p_pc \in {"loop", "done"} /\ p_run > 0) =>
        LET returns == PTrainReturns
            permuted == p_permuted_returns
            times(frame, row) ==
                Cardinality({k \in DOMAIN frame.index : FrameRow(frame, k) = row})
        IN  /\ permuted.index = returns.index
            /\ DOMAIN permuted.cols = DOMAIN returns.cols
            /\ \A c \in DOMAIN permuted.cols : Len(permuted.cols[c]) = Len(returns.index)
            /\ \A k \in DOMAIN permuted.index :
                  /\ \E m \in DOMAIN returns.index :
                        FrameRow(permuted, k) = FrameRow(returns, m)
                  /\ times(permuted, FrameRow(permuted, k)) =
                        times(returns, FrameRow(permuted, k))
            /\ \A state \in RngStates :
                  permute_returns_joint(returns, p_args.seed + p_run - 1, state).permuted
                      = permuted

\* a run whose permuted frame of two columns differs from its input
C22_Witness ==
    /\ p_pc \in {"loop", "done"} /\ p_run > 0
    /\ Cardinality(DOMAIN p_permuted_returns.cols) = 2
    /\ p_permuted_returns # PTrainReturns
    /\ \E k \in DOMAIN p_permuted_returns.index :
          FrameRow(p_permuted_returns, k) # FrameRow(PTrainReturns, k)

\* C23: func is called at most max_attempts times; it is called again only
\* after raising a listed exception; a listed exception raised by attempt
\* number max_attempts propagates after exactly max_attempts calls; an
\* unlisted exception propagates at once; the first return ends the retries
\* and is the result.
C23_RetryProtocol ==
    (t_pc \in {"loop", "done"}) =>
        LET n == Len(t_calls)
            listed(k) == /\ t_calls[k].kind = "raise"
                         /\ \/ t_calls[k].value \in t_exceptions
                            \/ BaseOf(t_calls[k].value) \in t_exceptions
        IN  /\ n <= t_max_attempts
            /\ \A k \in 1..(n - 1) : listed(k)
            /\ (t_pc = "loop" /\ n > 0) => (listed(n) /\ n < t_max_attempts)
            /\ (t_pc = "done" /\ n > 0) =>
                  /\ t_result = t_calls[n]
                  /\ listed(n) => n = t_max_attempts
            /\ (t_pc = "done" /\ n = 0) => t_max_attempts = 0

\* a call that raised a listed exception on each of three attempts, the
\* last one propagated
C23_Witness ==
    /\ t_pc = "done"
    /\ t_max_attempts = 3 /\ Len(t_calls) = 3
    /\ t_result = [kind |-> "raise", value |-> "TimeoutError"]
    /\ "TimeoutError" \in t_exceptions

C30_OrdersPerDay ==
    (e_now >= 0) =>
        /\ e_orders_today = e_placed[e_now]
        /\ (e_result.status = "violation" /\ "max_orders" \in e_result.errors) =>
              e_result.placed_before >= e_max_orders_per_day

\* the number of return observations of a symbol dated <= the date of row j:
\* one per row of the aligned returns frame up to that row
ObservationsUpTo(dates, j) == Cardinality({i \in DOMAIN dates : dates[i] <= dates[j]})

\* C26: run_backtest gives a symbol a non-zero weight on evaluation date t
\* only if at least vol_window return observations of that symbol are dated
\* <= t.
C26_WarmUp ==
    (b_pc = "done" /\ b_out.ok) =>
        \A j \in DOMAIN b_out.dates :
            \A sym \in DOMAIN b_out.weights_history[j] :
                b_out.weights_history[j][sym] # Zero =>
                    ObservationsUpTo(b_out.dates, j) >= b_cfg.vol_window

\* the inputs of AData that hold the same symbols in the same order as data
\* and agree with it on every row dated <= date
AgreeUpTo(data, date) ==
    {d \in AData :
        /\ \A k \in DOMAIN data : d[k].symbol = data[k].symbol
        /\ \A k \in DOMAIN data : \A i \in DOMAIN ADates :
              ADates[i] <= date =>
                 \A c \in DOMAIN data[k].df.cols :
                    d[k].df.cols[c][i] = data[k].df.cols[c][i]}

\* C27: for a given date t, select_assets returns the same list for any two
\* inputs (price frames and returns matrix) that agree on all rows dated <= t.
C27_SelectionUsesPast ==
    (a_pc = "done" /\ a_date # NoDate) =>
        \A d2 \in AgreeUpTo(a_data, a_date), d3 \in AgreeUpTo(a_data, a_date) :
            select_assets(d2, AlignedReturns(d3, ADates), a_cfg, a_date) = a_out

\* a selection made for date 2 of three, of a symbol list that the rows after
\* the date would change had they been read
C27_Witness ==
    /\ a_pc = "done"
    /\ a_date = 2
    /\ a_out # <<>>
    /\ \E d2 \in AgreeUpTo(a_data, a_date) :
          /\ d2 # a_data
          /\ select_assets(d2, AlignedReturns(d2, ADates), a_cfg, NoDate)
               # select_assets(a_data, AlignedReturns(a_data, ADates), a_cfg, NoDate)

\* the bar timestamps of the frames of a dict
BarsOf(data) == UNION {SeqRange(data[k].df.index) : k \in DOMAIN data}

\* data with the close of every bar dated outside [lo, hi) changed
ChangedOutside(data, lo, hi) ==
    [k \in DOMAIN data |->
        [symbol |-> data[k].symbol,
         df |-> MkFrame(data[k].df.index,
                        [i \in DOMAIN data[k].df.index |->
                            IF data[k].df.index[i] >= lo /\ data[k].df.index[i] < hi
                            THEN data[k].df.cols.close[i][1]
                            ELSE 6 - data[k].df.cols.close[i][1]])]]

\* the bars of the training backtests of window i
RTrainBars(i) ==
    BarsOf(TrainData(r_data, r_windows[i].train_start, r_windows[i].train_end))

\* C28: for every walk-forward window no bar timestamp is used both in the
\* training backtests of grid_search and in the OOS backtest of the window,
\* and the parameters applied OOS are chosen from training bars only: they
\* stay the same when every bar outside the training range is changed.
C28_NoTrainOosLeakage ==
    (r_pc \in {"loop", "done"}) =>
        /\ \A i \in DOMAIN r_windows :
              /\ \A d \in RTrainBars(i) :
                    d >= r_windows[i].train_start /\ d < r_windows[i].train_end
              /\ RTrainBars(i) \cap
                   BarsOf(OosData(r_data, r_windows[i].oos_start, r_windows[i].oos_end)) = {}
        /\ \A k \in DOMAIN r_oos_results :
              LET i == r_oos_results[k].window
                  changed == ChangedOutside(r_data, r_windows[i].train_start,
                                            r_windows[i].train_end)
              IN  /\ SeqRange(r_oos_equity_segments[k].index) \cap RTrainBars(i) = {}
                  /\ r_oos_results[k].params =
                       grid_search(changed, AlignedReturns(changed, r_returns.index), r_cfg,
                                   r_windows[i].train_start, r_windows[i].train_end).params

\* a finished run with an OOS result for a window whose training and OOS
\* ranges both hold bars, and whose parameters would have been others had
\* the search read the window's OOS bars too
C28_Witness ==
    /\ r_pc = "done" /\ r_out.ok
    /\ \E k \in DOMAIN r_out.oos_results :
          LET i == r_out.oos_results[k].window
          IN  /\ RTrainBars(i) # {}
              /\ r_oos_equity_segments[k].index # <<>>
              /\ r_out.oos_results[k].params #
                   grid_search(r_data, r_returns, r_cfg,
                               r_windows[i].train_start, r_windows[i].oos_end + 1).params

\* C29: for any two symbols of a WeightVector returned by calculate_weights,
\* the symbol with the strictly lower trailing volatility never has a
\* strictly smaller final weight than the other.
C29_InverseVolOrder ==
    WDone =>
        \A a \in DOMAIN w_out, b \in DOMAIN w_out :
            RLt(StdevLast(w_returns[a], w_cfg.vol_window),
                StdevLast(w_returns[b], w_cfg.vol_window))
                => ~RLt(w_out[a], w_out[b])

=============================================================================
